---- MODULE Spec2Model ----
(***************************************************************************)
(* FoodKeeper: the food inventory, the expiry evaluator and the expiry     *)
(* notification generator of the Express backend, as a state machine.      *)
(*                                                                         *)
(* Every HTTP request runs as an async handler; each `await` on a database *)
(* round trip is a point where another request may run.  A request slot    *)
(* (Reqs) holds one handler in flight: pc is the await it is suspended at, *)
(* loc its local variables.  The tables foods and notifications are the    *)
(* shared state; every SQL statement is one atomic step.                   *)
(*                                                                         *)
(* Dates are day numbers, instants are ticks (TicksPerDay ticks a day), a  *)
(* DATE value d denotes the instant d * TicksPerDay (local midnight).      *)
(***************************************************************************)
EXTENDS Integers, Sequences, FiniteSets, TLC

\* ---------------------------------------------------------------- bounds
MaxFoods == 1          \* food rows ever inserted, one handler at a time
RaceFoods == 2         \* food rows ever inserted, two handlers in flight
MaxNotifs == 2         \* notification rows ever inserted
CascadeFoods == 2      \* food rows ever inserted while a hard delete races inserts
StorageFoods == 1      \* food rows ever inserted while storage advice is followed
maxRequests == 2       \* options.maxRequests of the modelled limiter, scaled down
LimiterRequests == 4   \* requests the limiter ever evaluates
MaxTokenPairs == 3     \* token pairs ever signed
MaxIngredients == 3    \* longest ingredient list a recipe request carries
RepeatIngredients == 1 \* the same, where an earlier call is compared with a later one
MaxLater == 3          \* calls counted after the earlier call
IsolationFoods == 2     \* food rows of the two-user specification
MaxWindow == 1         \* last fixed window of the limiter's clock
MaxNow == 10           \* last instant of the clock, in ticks
TicksPerDay == 2       \* resolution of the clock: midnight and noon

Reqs == {1, 2}         \* handlers that may be in flight together
Users == {1}

\* ------------------------------------------------------- program constants
DefaultThreshold == 3  \* daysThreshold default, and the literal in the generator

FoodStatuses == {"active", "consumed", "expired", "disposed"}
StorageLocations == {"fridge", "pantry"}

\* storage_tips: one seeded row, matched by food name
TipName == "tomato"
TipMethod == "pantry"
TipShelfLife == 2       \* shelf_life_days of the row, scaled to the clock
FoodNames == {"tomato"}
PartialMatches == {"cherry tomato"}   \* names that contain the tip's name
StorageNames == {"tomato", "cherry tomato", "rice"}

\* ------------------------------------------------------------ state
VARIABLES
    foods,          \* table foods: id -> row
    nextFoodId,     \* SERIAL sequence of foods.id
    notifications,  \* table notifications: set of rows
    nextNotifId,    \* SERIAL sequence of notifications.id
    now,            \* the clock, in ticks
    pc,             \* per request slot: the await the handler is suspended at
    loc,            \* per request slot: the handler's local variables
    response,       \* the HTTP response the last step sent, if it sent one
    rlStore,        \* Redis: window -> the counter key rate_limit:<key>:<windowStart>
    rlHealthy,      \* TRUE iff Redis answers commands
    rlWindow,       \* Math.floor(Date.now() / windowMs)
    rlPc,           \* per request slot: the await the limiter is suspended at
    rlLoc,          \* per request slot: the limiter's local variables
    rlAllowed,      \* window -> requests let through after an error-free check
    rlStarted,      \* requests the limiter has begun to evaluate
    rlResponse,     \* what the limiter did with the last request it finished
    authIssued,     \* every JWT CryptoUtils has signed
    authNextJti,    \* serial standing for the iat / jti that tell tokens apart
    authExpired,    \* the signed tokens whose exp has passed
    refreshStore,   \* Redis: user -> the value of refresh_token:<userId>
    authPc,         \* per request slot: the await refreshToken is suspended at
    authLoc,        \* per request slot: the refresh token the handler was called with
    authLoggedOut,  \* history: access tokens issued before a successful logout of their user
    authResponse,   \* the response of the last auth or protected request
    errResponse,    \* the last error caught, where, and the response it became
    clTokens,       \* the browser's localStorage: access_token and refresh_token
    clPc,           \* per query of the client: where its request stands
    clQuery,        \* per query of the client: the axios request config and the counters
    clLoggedOut,    \* TRUE once the interceptor cleared the tokens and went to /login
    mcpResponse,    \* the last call of get_recipe_suggestions and its answer
    mcpLocals,      \* the locals of that call when it answered or threw
    mcpRemembered,  \* history: one earlier call and how many calls followed it
    userActive,     \* table users: user -> is_active
    authRefreshed,  \* history: refresh token -> refreshToken calls it was accepted by
    authRevoked,    \* history: refresh tokens issued before a completed password
                    \* change, password reset or deactivation of their user
    authLateAccepted \* history: refresh tokens accepted after they were revoked

foodVars == <<foods, nextFoodId, notifications, nextNotifId, now, pc, loc, response>>

limiterVars == <<rlStore, rlHealthy, rlWindow, rlPc, rlLoc, rlAllowed, rlStarted, rlResponse>>

authVars == <<authIssued, authNextJti, authExpired, refreshStore, authPc, authLoc,
              authLoggedOut, authResponse>>

errVars == <<errResponse>>

clientVars == <<clTokens, clPc, clQuery, clLoggedOut>>

recipeVars == <<mcpResponse, mcpLocals, mcpRemembered>>

accountVars == <<userActive, authRefreshed, authRevoked, authLateAccepted>>

\* what the food service, the limiter, the auth routes and the error handlers
\* each leave alone; an auth route leaves the browser alone unless the browser
\* is the one calling it, and the users table and the histories of refresh
\* tokens alone unless it is an account route
notFoodVars == <<limiterVars, authVars, errVars, clientVars, recipeVars, accountVars>>

notLimiterVars == <<foodVars, authVars, errVars, clientVars, recipeVars, accountVars>>

notAuthVars == <<foodVars, limiterVars, errVars, recipeVars>>

notErrVars == <<foodVars, limiterVars, authVars, clientVars, recipeVars, accountVars>>

notRecipeVars == <<foodVars, limiterVars, authVars, errVars, clientVars, accountVars>>

vars == <<foodVars, limiterVars, authVars, errVars, clientVars, recipeVars,
          accountVars>>

\* ------------------------------------------------------------ time
Today == now \div TicksPerDay

Midnight(d) == d * TicksPerDay

Abs(x) == IF x < 0 THEN -x ELSE x

Sign(x) == IF x < 0 THEN -1 ELSE IF x > 0 THEN 1 ELSE 0

\* date-fns differenceInCalendarDays on two instants
differenceInCalendarDays(left, right) ==
    (left \div TicksPerDay) - (right \div TicksPerDay)

\* date-fns differenceInDays: full days between two instants, toward zero
differenceInDays(left, right) ==
    LET sign == Sign(left - right)
        difference == Abs(differenceInCalendarDays(left, right))
        shifted == left - sign * difference * TicksPerDay
        isLastDayNotFull == IF Sign(shifted - right) = -sign THEN 1 ELSE 0
    IN  sign * (difference - isLastDayNotFull)

\* DateUtils.getDaysUntilExpiry at instant t
getDaysUntilExpiryAt(expiryDate, t) == differenceInDays(Midnight(expiryDate), t)

getDaysUntilExpiry(expiryDate) == getDaysUntilExpiryAt(expiryDate, now)

\* DateUtils.isExpiringSoon / isExpired
isExpiringSoon(expiryDate, daysThreshold) ==
    getDaysUntilExpiry(expiryDate) <= daysThreshold /\ getDaysUntilExpiry(expiryDate) >= 0

isExpired(expiryDate) == getDaysUntilExpiry(expiryDate) < 0

\* SQL is_food_expiring_soon / is_food_expired, CURRENT_DATE = Today
is_food_expiring_soon(expiry_date, days_threshold) ==
    expiry_date <= Today + 1 * days_threshold /\ expiry_date >= Today

is_food_expired(expiry_date) == expiry_date < Today

\* Dashboard.expiringSoon: Math.ceil of the difference in days
DashboardDiffDays(expiry_date) ==
    LET diffTime == Midnight(expiry_date) - now
    IN  -((-diffTime) \div TicksPerDay)

DashboardExpiringSoon(expiry_date) ==
    DashboardDiffDays(expiry_date) <= 3 /\ DashboardDiffDays(expiry_date) >= 0

\* ------------------------------------------------------------ rows
NULL == "null"

CategoryIds == {1}     \* categories: static reference rows

NoRow == [id |-> 0]

NoData == [k \in {} |-> 0]

\* locals of a handler: op the service method, user the authenticated user,
\* foodId the :id parameter (foodIds: every food id the request names or
\* creates), data the request body, adjustedUpdateData what
\* updateFood passes to the repository, food the row the generator was called
\* with, daysUntilExpiry its local, queue what a loop has left
IdleLoc == [op |-> "none", user |-> 0, foodId |-> 0, foodIds |-> {}, data |-> NoData,
            adjustedUpdateData |-> NoData,
            food |-> NoRow, daysUntilExpiry |-> 0, queue |-> <<>>]

\* value of column k after `SET col = value` for every key of data
Col(data, row, k) == IF k \in DOMAIN data THEN data[k] ELSE row[k]

FoodRow(id, data, row) ==
    [id               |-> id,
     user_id          |-> Col(data, row, "user_id"),
     category_id      |-> Col(data, row, "category_id"),
     name             |-> Col(data, row, "name"),
     purchase_date    |-> Col(data, row, "purchase_date"),
     expiry_date      |-> Col(data, row, "expiry_date"),
     storage_location |-> Col(data, row, "storage_location"),
     status           |-> Col(data, row, "status")]

\* column defaults of CREATE TABLE foods for the keys an INSERT leaves out
FoodDefaults == [user_id |-> 0, category_id |-> 0, name |-> NULL, purchase_date |-> 0,
                 expiry_date |-> 0, storage_location |-> NULL, status |-> "active"]

\* BaseRepository.findById on foods
findById(id) == IF id \in DOMAIN foods THEN foods[id] ELSE NoRow

\* BaseRepository.findByIds on foods: the rows whose id is in ids
findByIds(ids) == {foods[i] : i \in {j \in DOMAIN foods : \E n \in DOMAIN ids : ids[n] = j}}

\* ------------------------------------------------------ notifications
\* NotificationRepository.findByUserAndFood: TRUE iff the SELECT returns a row
findByUserAndFood(userId, foodId, type) ==
    \E n \in notifications : n.user_id = userId /\ n.food_id = foodId /\ n.type = type

\* NotificationRepository.deleteByFoodId
deleteByFoodId(foodId) == {n \in notifications : n.food_id # foodId}

\* title, message template and priority the generator picks for a day offset
AlertTemplate(daysUntilExpiry) ==
    IF daysUntilExpiry < 0 THEN [title |-> "expired", priority |-> "high"]
    ELSE IF daysUntilExpiry = 0 THEN [title |-> "today", priority |-> "high"]
    ELSE IF daysUntilExpiry = 1 THEN [title |-> "tomorrow", priority |-> "high"]
    ELSE [title |-> "soon", priority |-> "medium"]

\* first guard of checkAndCreateExpiryNotification, on the caller's snapshot:
\* TRUE iff the generator goes on to its existence check
GeneratorDue(food) ==
    /\ food.status = "active"
    /\ getDaysUntilExpiry(food.expiry_date) <= 3

\* ------------------------------------------------------ storage tips
\* StorageTipRepository.findByFoodName: TRUE iff a tip row matches the name,
\* exactly or, failing that, partially
findByFoodName(foodName) == foodName = TipName \/ foodName \in PartialMatches

\* the adjustment as it would act were the candidate taken without comparing
adjustExpiryDateBasedOnStorage_Always(foodData, dateObjects) ==
    IF \/ "storage_location" \notin DOMAIN foodData
       \/ foodData.storage_location = NULL
       \/ "name" \notin DOMAIN foodData
    THEN [ok |-> TRUE, data |-> foodData]
    ELSE IF findByFoodName(foodData.name) /\ TipMethod = foodData.storage_location
    THEN IF "purchase_date" \in dateObjects
         THEN [ok |-> FALSE, data |-> foodData]
         ELSE [ok |-> TRUE,
               data |-> ("expiry_date" :> foodData.purchase_date + TipShelfLife) @@ foodData]
    ELSE [ok |-> TRUE, data |-> foodData]

\* FoodService.adjustExpiryDateBasedOnStorage.  dateObjects: the date keys of
\* foodData that hold Date objects read from the database (pg parses DATE
\* columns into Date) instead of request strings; parseISO of a Date object is
\* an Invalid Date, format of an Invalid Date throws RangeError.
adjustExpiryDateBasedOnStorage(foodData, dateObjects) ==
    IF \/ "storage_location" \notin DOMAIN foodData
       \/ foodData.storage_location = NULL
       \/ "name" \notin DOMAIN foodData
    THEN [ok |-> TRUE, data |-> foodData]
    ELSE IF findByFoodName(foodData.name) /\ TipMethod = foodData.storage_location
    THEN IF "purchase_date" \in dateObjects
         THEN [ok |-> FALSE, data |-> foodData]
         ELSE LET suggestedExpiryDate == foodData.purchase_date + TipShelfLife
              IN  IF "expiry_date" \notin dateObjects
                     /\ suggestedExpiryDate > foodData.expiry_date
                  THEN [ok |-> TRUE,
                        data |-> ("expiry_date" :> suggestedExpiryDate) @@ foodData]
                  ELSE [ok |-> TRUE, data |-> foodData]
    ELSE [ok |-> TRUE, data |-> foodData]

\* ------------------------------------------------------------ requests
\* request bodies that pass the Joi schemas foodCreationSchema / foodUpdateSchema
PurchaseInputs == {0, 1}
ExpiryInputs == {0, 4}
CategoryInputs == {1, 2}

CreateInputs ==
    {[name |-> n, category_id |-> c, purchase_date |-> p, expiry_date |-> e]
        : n \in FoodNames, c \in CategoryInputs, p \in PurchaseInputs, e \in ExpiryInputs}
    \cup
    {[name |-> n, category_id |-> 1, purchase_date |-> p, expiry_date |-> e,
      storage_location |-> s]
        : n \in FoodNames, p \in PurchaseInputs, e \in ExpiryInputs, s \in StorageLocations}

UpdateInputs ==
    {NoData}
    \cup {[expiry_date |-> e] : e \in ExpiryInputs}
    \cup {[purchase_date |-> d] : d \in PurchaseInputs}
    \cup {[status |-> s] : s \in FoodStatuses}
    \cup {[category_id |-> c] : c \in CategoryInputs}
    \cup {[storage_location |-> s] : s \in StorageLocations}
    \cup {[storage_location |-> s, purchase_date |-> d, expiry_date |-> e]
            : s \in StorageLocations, d \in PurchaseInputs, e \in ExpiryInputs}

\* the requests of the storage-advice specification: bodies bought on day 0
\* with every name, location and expiry date, bodies whose expiry date is
\* before the purchase date, and updates that move a food
StorageExpiryInputs == {0, 2, 4}

StorageCreateInputs ==
    {[name |-> n, category_id |-> 1, purchase_date |-> 0, expiry_date |-> e]
        : n \in StorageNames, e \in StorageExpiryInputs}
    \cup
    {[name |-> n, category_id |-> 1, purchase_date |-> 0, expiry_date |-> e,
      storage_location |-> s]
        : n \in StorageNames, e \in StorageExpiryInputs, s \in StorageLocations}
    \cup
    {[name |-> n, category_id |-> 1, purchase_date |-> 1, expiry_date |-> 0,
      storage_location |-> TipMethod] : n \in StorageNames}

StorageUpdateInputs ==
    {[storage_location |-> s] : s \in StorageLocations}
    \cup {[storage_location |-> s, purchase_date |-> 0, expiry_date |-> e]
            : s \in StorageLocations, e \in {0, 4}}

BulkInputs(n) == {<<a>> : a \in 1..n} \cup {<<a, b>> : a, b \in 1..n}

\* the requests of the two-handler specification
RaceCreateInputs ==
    {[name |-> "tomato", category_id |-> 1, purchase_date |-> 0, expiry_date |-> 0,
      storage_location |-> "fridge"]}

RaceUpdateInputs == {[expiry_date |-> 0], [status |-> "active"], [status |-> "disposed"]}

IsolationUpdateInputs == {[expiry_date |-> 0]}

\* ------------------------------------------------------------ control
\* errors: the keys of the errors object of a 400 response
NoResponse == [op |-> "none", status |-> 0, user |-> 0, foodIds |-> {}, errors |-> {}]

\* the handler is suspended at await p with locals l
Goto(r, p, l) ==
    /\ pc' = [pc EXCEPT ![r] = p]
    /\ loc' = [loc EXCEPT ![r] = l]
    /\ response' = NoResponse
    /\ UNCHANGED notFoodVars

\* the handler with locals l returns: res.status(status).json(...), or the
\* error reaches handleError
Finish(r, l, status) ==
    /\ pc' = [pc EXCEPT ![r] = "idle"]
    /\ loc' = [loc EXCEPT ![r] = IdleLoc]
    /\ response' = [op |-> l.op, status |-> status, user |-> l.user, foodIds |-> l.foodIds,
                    errors |-> {}]
    /\ UNCHANGED notFoodVars

\* a request that fails before its first write: nothing but the response
Reject(r, op, u, ids, status) ==
    /\ response' = [op |-> op, status |-> status, user |-> u, foodIds |-> ids, errors |-> {}]
    /\ UNCHANGED <<foods, nextFoodId, notifications, nextNotifId, now, pc, loc>>
    /\ UNCHANGED notFoodVars

\* ValidationMiddleware.handleValidationError / a ValidationError reaching
\* handleError: 400 with the errors object keyed by field
RejectValidation(r, op, u, errors) ==
    /\ response' = [op |-> op, status |-> 400, user |-> u, foodIds |-> {}, errors |-> errors]
    /\ UNCHANGED <<foods, nextFoodId, notifications, nextNotifId, now, pc, loc>>
    /\ UNCHANGED notFoodVars

RECURSIVE DropNotDue(_)
\* the sweep's for loop: snapshots whose generator call returns at once
DropNotDue(q) ==
    IF q = <<>> THEN q
    ELSE IF GeneratorDue(Head(q)) THEN q
    ELSE DropNotDue(Tail(q))

\* checkExpiringFoodsForUser: the loop goes on to its next snapshot
SweepLoop(r, l) ==
    LET q == DropNotDue(l.queue)
    IN  IF q = <<>>
        THEN Finish(r, l, 200)
        ELSE Goto(r, "cn_find",
                  [l EXCEPT !.food = Head(q),
                            !.daysUntilExpiry = getDaysUntilExpiry(Head(q).expiry_date),
                            !.queue = Tail(q)])

\* checkAndCreateExpiryNotification has returned to its caller
AfterGenerator(r, l) ==
    IF l.op = "checkExpiringFoodsForUser" THEN SweepLoop(r, l)
    ELSE IF l.op = "createFood" THEN Finish(r, l, 201)
    ELSE Finish(r, l, 200)

\* the caller awaits checkAndCreateExpiryNotification(food): the code up to
\* the await of findByUserAndFood
StartGenerator(r, l, food) ==
    IF GeneratorDue(food)
    THEN Goto(r, "cn_find",
              [l EXCEPT !.food = food,
                        !.daysUntilExpiry = getDaysUntilExpiry(food.expiry_date)])
    ELSE AfterGenerator(r, l)

\* ------------------------------------------------------------ generator
\* checkAndCreateExpiryNotification resumes from findByUserAndFood
checkAndCreateExpiryNotification_find(r) ==
    /\ pc[r] = "cn_find"
    /\ LET food == loc[r].food
       IN  IF findByUserAndFood(food.user_id, food.id, "expiry_alert")
           THEN AfterGenerator(r, loc[r])
           ELSE Goto(r, "cn_create", loc[r])
    /\ UNCHANGED <<foods, nextFoodId, notifications, nextNotifId, now>>

\* notificationRepository.create: INSERT INTO notifications; the foreign key
\* food_id REFERENCES foods(id) rejects the row when the food row is gone
checkAndCreateExpiryNotification_create(r) ==
    /\ pc[r] = "cn_create"
    /\ LET food == loc[r].food
           t == AlertTemplate(loc[r].daysUntilExpiry)
       IN  IF food.id \in DOMAIN foods
           THEN /\ nextNotifId <= MaxNotifs
                /\ notifications' = notifications \cup
                      {[id |-> nextNotifId, user_id |-> food.user_id, food_id |-> food.id,
                        type |-> "expiry_alert", title |-> t.title,
                        priority |-> t.priority, status |-> "unread"]}
                /\ nextNotifId' = nextNotifId + 1
                /\ AfterGenerator(r, loc[r])
           ELSE /\ Finish(r, loc[r], 500)
                /\ UNCHANGED <<notifications, nextNotifId>>
    /\ UNCHANGED <<foods, nextFoodId, now>>

\* Database.query rethrows what the pool throws (connection lost): the query
\* the generator awaits rejects, and the error reaches the caller's handleError.
\* Statements run outside any transaction, so nothing is rolled back.
query_throws(r) ==
    /\ pc[r] \in {"cn_find", "cn_create"}
    /\ Finish(r, loc[r], 500)
    /\ UNCHANGED <<foods, nextFoodId, notifications, nextNotifId, now>>

\* ------------------------------------------------------------ createFood
\* createFood as it would act were the supplied body inserted unadjusted
createFood_StoresSupplied(r, u, foodData, maxFoods) ==
    /\ pc[r] = "idle"
    /\ nextFoodId <= maxFoods
    /\ IF foodData.expiry_date < foodData.purchase_date
       THEN RejectValidation(r, "createFood", u, {"expiry_date"})
       ELSE IF foodData.category_id \notin CategoryIds
       THEN Reject(r, "createFood", u, {}, 404)
       ELSE LET food == FoodRow(nextFoodId,
                                [user_id |-> u, status |-> "active"] @@ foodData,
                                FoodDefaults)
            IN  /\ foods' = (nextFoodId :> food) @@ foods
                /\ nextFoodId' = nextFoodId + 1
                /\ StartGenerator(r, [IdleLoc EXCEPT !.op = "createFood", !.user = u,
                                                     !.foodIds = {nextFoodId},
                                                     !.data = foodData], food)
                /\ UNCHANGED <<notifications, nextNotifId, now>>

\* createFood as it would act were the two dates never compared
createFood_NoDateCheck(r, u, foodData, maxFoods) ==
    /\ pc[r] = "idle"
    /\ nextFoodId <= maxFoods
    /\ IF foodData.category_id \notin CategoryIds
       THEN Reject(r, "createFood", u, {}, 404)
       ELSE LET adjustedFoodData == adjustExpiryDateBasedOnStorage(foodData, {}).data
                food == FoodRow(nextFoodId,
                                [user_id |-> u, status |-> "active"] @@ adjustedFoodData,
                                FoodDefaults)
            IN  /\ foods' = (nextFoodId :> food) @@ foods
                /\ nextFoodId' = nextFoodId + 1
                /\ StartGenerator(r, [IdleLoc EXCEPT !.op = "createFood", !.user = u,
                                                     !.foodIds = {nextFoodId},
                                                     !.data = foodData], food)
                /\ UNCHANGED <<notifications, nextNotifId, now>>

\* POST /foods: validateFoodCreation, validateFoodData, the category lookup,
\* the storage adjustment and the INSERT, up to the generator's first await;
\* maxFoods caps the SERIAL sequence of foods.id
createFood(r, u, foodData, maxFoods) ==
    /\ pc[r] = "idle"
    /\ nextFoodId <= maxFoods
    /\ IF foodData.expiry_date < foodData.purchase_date
       THEN RejectValidation(r, "createFood", u, {"expiry_date"})
       ELSE IF foodData.category_id \notin CategoryIds
       THEN Reject(r, "createFood", u, {}, 404)
       ELSE LET adjustedFoodData == adjustExpiryDateBasedOnStorage(foodData, {}).data
                food == FoodRow(nextFoodId,
                                [user_id |-> u, status |-> "active"] @@ adjustedFoodData,
                                FoodDefaults)
            IN  /\ foods' = (nextFoodId :> food) @@ foods
                /\ nextFoodId' = nextFoodId + 1
                /\ StartGenerator(r, [IdleLoc EXCEPT !.op = "createFood", !.user = u,
                                                     !.foodIds = {nextFoodId},
                                                     !.data = foodData], food)
                /\ UNCHANGED <<notifications, nextNotifId, now>>

\* ------------------------------------------------------------ updateFood
\* PUT /foods/:id up to the await of foodRepository.update: getFoodById,
\* validateFoodUpdateData, the category lookup and the storage adjustment
updateFood_getFoodById(r, u, foodId, updateData) ==
    /\ pc[r] = "idle"
    /\ IF foodId \notin DOMAIN foods \/ findById(foodId).user_id # u
       THEN Reject(r, "updateFood", u, {foodId}, 404)
       ELSE IF "category_id" \in DOMAIN updateData /\ updateData.category_id \notin CategoryIds
       THEN Reject(r, "updateFood", u, {foodId}, 404)
       ELSE LET existingFood == findById(foodId)
                l == [IdleLoc EXCEPT !.op = "updateFood", !.user = u, !.foodId = foodId,
                                     !.foodIds = {foodId}, !.data = updateData]
            IN  IF /\ "storage_location" \in DOMAIN updateData
                   /\ updateData.storage_location # existingFood.storage_location
                THEN LET adjusted == adjustExpiryDateBasedOnStorage(
                                        updateData @@ existingFood,
                                        {"purchase_date", "expiry_date"} \ DOMAIN updateData)
                     IN  IF adjusted.ok
                         THEN /\ Goto(r, "upd_update",
                                      [l EXCEPT !.adjustedUpdateData = adjusted.data])
                              /\ UNCHANGED <<foods, nextFoodId, notifications,
                                             nextNotifId, now>>
                         ELSE Reject(r, "updateFood", u, {foodId}, 500)   \* RangeError
                ELSE /\ Goto(r, "upd_update", [l EXCEPT !.adjustedUpdateData = updateData])
                     /\ UNCHANGED <<foods, nextFoodId, notifications, nextNotifId, now>>

\* foodRepository.update (UPDATE ... WHERE id RETURNING *) and what follows it
updateFood_update(r) ==
    /\ pc[r] = "upd_update"
    /\ LET l == loc[r]
       IN  IF l.foodId \notin DOMAIN foods
           THEN /\ Finish(r, l, 500)                         \* null row
                /\ UNCHANGED foods
           ELSE LET updatedFood == FoodRow(l.foodId, l.adjustedUpdateData, foods[l.foodId])
                IN  /\ foods' = [foods EXCEPT ![l.foodId] = updatedFood]
                    /\ IF "expiry_date" \in DOMAIN l.data \/ "status" \in DOMAIN l.data
                       THEN StartGenerator(r, l, updatedFood)
                       ELSE Finish(r, l, 200)
    /\ UNCHANGED <<nextFoodId, notifications, nextNotifId, now>>

\* FoodRepository.updateStatus: UPDATE foods SET status WHERE id AND user_id
updateStatus(id, status, userId) ==
    [i \in DOMAIN foods |->
        IF i = id /\ foods[i].user_id = userId
        THEN [foods[i] EXCEPT !.status = status]
        ELSE foods[i]]

\* TRUE iff updateStatus returns a row
updateStatusHits(id, userId) == id \in DOMAIN foods /\ foods[id].user_id = userId

\* ------------------------------------------------------------ deleteFood
deleteFood_getFoodById_AnyOwner(r, u, foodId) ==
    /\ pc[r] = "idle"
    /\ IF foodId \notin DOMAIN foods
       THEN Reject(r, "deleteFood", u, {foodId}, 404)
       ELSE /\ Goto(r, "del_deleteByFoodId",
                    [IdleLoc EXCEPT !.op = "deleteFood", !.user = u, !.foodId = foodId,
                                    !.foodIds = {foodId}])
            /\ UNCHANGED <<foods, nextFoodId, notifications, nextNotifId, now>>

deleteFood_getFoodById(r, u, foodId) ==
    /\ pc[r] = "idle"
    /\ IF foodId \notin DOMAIN foods \/ findById(foodId).user_id # u
       THEN Reject(r, "deleteFood", u, {foodId}, 404)
       ELSE /\ Goto(r, "del_deleteByFoodId",
                    [IdleLoc EXCEPT !.op = "deleteFood", !.user = u, !.foodId = foodId,
                                    !.foodIds = {foodId}])
            /\ UNCHANGED <<foods, nextFoodId, notifications, nextNotifId, now>>

deleteFood_deleteByFoodId(r) ==
    /\ pc[r] = "del_deleteByFoodId"
    /\ notifications' = deleteByFoodId(loc[r].foodId)
    /\ Goto(r, "del_delete", loc[r])
    /\ UNCHANGED <<foods, nextFoodId, nextNotifId, now>>

\* the DELETE as it would act were food_id declared without ON DELETE CASCADE
deleteFood_delete_NoCascade(r) ==
    /\ pc[r] = "del_delete"
    /\ foods' = [i \in DOMAIN foods \ {loc[r].foodId} |-> foods[i]]
    /\ Finish(r, loc[r], IF loc[r].foodId \in DOMAIN foods THEN 204 ELSE 500)
    /\ UNCHANGED <<nextFoodId, notifications, nextNotifId, now>>

\* foodRepository.delete: DELETE FROM foods, notifications rows cascade
deleteFood_delete(r) ==
    /\ pc[r] = "del_delete"
    /\ foods' = [i \in DOMAIN foods \ {loc[r].foodId} |-> foods[i]]
    /\ notifications' = deleteByFoodId(loc[r].foodId)
    /\ Finish(r, loc[r], IF loc[r].foodId \in DOMAIN foods THEN 204 ELSE 500)
    /\ UNCHANGED <<nextFoodId, nextNotifId, now>>

\* ------------------------------------------------------------ markAsConsumed
markAsConsumed_getFoodById(r, u, foodId) ==
    /\ pc[r] = "idle"
    /\ IF foodId \notin DOMAIN foods \/ findById(foodId).user_id # u
       THEN Reject(r, "markAsConsumed", u, {foodId}, 404)
       ELSE /\ Goto(r, "con_updateStatus",
                    [IdleLoc EXCEPT !.op = "markAsConsumed", !.user = u, !.foodId = foodId,
                                    !.foodIds = {foodId}])
            /\ UNCHANGED <<foods, nextFoodId, notifications, nextNotifId, now>>

markAsConsumed_updateStatus(r) ==
    /\ pc[r] = "con_updateStatus"
    /\ foods' = updateStatus(loc[r].foodId, "consumed", loc[r].user)
    /\ IF updateStatusHits(loc[r].foodId, loc[r].user)
       THEN Goto(r, "con_deleteByFoodId", loc[r])
       ELSE Finish(r, loc[r], 500)                           \* null row
    /\ UNCHANGED <<nextFoodId, notifications, nextNotifId, now>>

markAsConsumed_deleteByFoodId(r) ==
    /\ pc[r] = "con_deleteByFoodId"
    /\ notifications' = deleteByFoodId(loc[r].foodId)
    /\ Finish(r, loc[r], 200)
    /\ UNCHANGED <<foods, nextFoodId, nextNotifId, now>>

\* ------------------------------------------------------------ markAsExpired
markAsExpired_getFoodById(r, u, foodId) ==
    /\ pc[r] = "idle"
    /\ IF foodId \notin DOMAIN foods \/ findById(foodId).user_id # u
       THEN Reject(r, "markAsExpired", u, {foodId}, 404)
       ELSE /\ Goto(r, "exp_updateStatus",
                    [IdleLoc EXCEPT !.op = "markAsExpired", !.user = u, !.foodId = foodId,
                                    !.foodIds = {foodId}])
            /\ UNCHANGED <<foods, nextFoodId, notifications, nextNotifId, now>>

markAsExpired_updateStatus(r) ==
    /\ pc[r] = "exp_updateStatus"
    /\ foods' = updateStatus(loc[r].foodId, "expired", loc[r].user)
    /\ Finish(r, loc[r], IF updateStatusHits(loc[r].foodId, loc[r].user) THEN 200 ELSE 500)
    /\ UNCHANGED <<nextFoodId, notifications, nextNotifId, now>>

\* ------------------------------------------------------------ bulkMarkAsConsumed
bulkMarkAsConsumed_findByIds(r, u, foodIds) ==
    /\ pc[r] = "idle"
    /\ LET userFoods == {food \in findByIds(foodIds) : food.user_id = u}
       IN  IF Cardinality(userFoods) # Len(foodIds)
           THEN Reject(r, "bulkMarkAsConsumed", u, {foodIds[n] : n \in DOMAIN foodIds}, 404)
           ELSE /\ Goto(r, "bulk_bulkUpdateStatus",
                        [IdleLoc EXCEPT !.op = "bulkMarkAsConsumed", !.user = u,
                                        !.foodIds = {foodIds[n] : n \in DOMAIN foodIds},
                                        !.queue = foodIds])
                /\ UNCHANGED <<foods, nextFoodId, notifications, nextNotifId, now>>

\* FoodRepository.bulkUpdateStatus: UPDATE foods SET status WHERE user_id AND id IN
bulkUpdateStatus(ids, status, userId) ==
    [i \in DOMAIN foods |->
        IF (\E n \in DOMAIN ids : ids[n] = i) /\ foods[i].user_id = userId
        THEN [foods[i] EXCEPT !.status = status]
        ELSE foods[i]]

bulkMarkAsConsumed_bulkUpdateStatus(r) ==
    /\ pc[r] = "bulk_bulkUpdateStatus"
    /\ foods' = bulkUpdateStatus(loc[r].queue, "consumed", loc[r].user)
    /\ Goto(r, "bulk_deleteByFoodId", loc[r])
    /\ UNCHANGED <<nextFoodId, notifications, nextNotifId, now>>

\* one iteration of `for (const foodId of foodIds) await deleteByFoodId(foodId)`
bulkMarkAsConsumed_deleteByFoodId(r) ==
    /\ pc[r] = "bulk_deleteByFoodId"
    /\ notifications' = deleteByFoodId(Head(loc[r].queue))
    /\ IF Tail(loc[r].queue) = <<>>
       THEN Finish(r, loc[r], 200)
       ELSE Goto(r, "bulk_deleteByFoodId", [loc[r] EXCEPT !.queue = Tail(@)])
    /\ UNCHANGED <<foods, nextFoodId, nextNotifId, now>>

\* ------------------------------------------------------------ read
\* FoodController.getById -> FoodService.getFoodById: 404 unless the row
\* exists and belongs to the caller
getById(r, u, foodId) ==
    /\ pc[r] = "idle"
    /\ IF foodId \notin DOMAIN foods \/ findById(foodId).user_id # u
       THEN Reject(r, "getById", u, {foodId}, 404)
       ELSE Reject(r, "getById", u, {foodId}, 200)

\* ------------------------------------------------------------ sweep
\* FoodRepository.findExpiringFoods: the rows the SELECT returns
findExpiringFoods(userId, daysThreshold) ==
    {foods[i] : i \in {j \in DOMAIN foods :
                        /\ foods[j].user_id = userId
                        /\ foods[j].status = "active"
                        /\ is_food_expiring_soon(foods[j].expiry_date, daysThreshold)}}

\* the orders `ORDER BY f.expiry_date ASC` may return rows in
OrderByExpiry(rows) ==
    {q \in [1..Cardinality(rows) -> rows] :
        /\ \A a, b \in DOMAIN q : a # b => q[a] # q[b]
        /\ \A a, b \in DOMAIN q : a < b => q[a].expiry_date <= q[b].expiry_date}

\* checkExpiringFoodsForUser up to the first await inside its loop
checkExpiringFoodsForUser(r, u) ==
    /\ pc[r] = "idle"
    /\ \E expiringFoods \in OrderByExpiry(findExpiringFoods(u, DefaultThreshold)) :
          SweepLoop(r, [IdleLoc EXCEPT !.op = "checkExpiringFoodsForUser", !.user = u,
                                       !.queue = expiringFoods])
    /\ UNCHANGED <<foods, nextFoodId, notifications, nextNotifId, now>>

\* ------------------------------------------------------------ notifications API
\* NotificationRepository.markAsRead: UPDATE ... WHERE id AND user_id AND unread
markAsRead(notificationId, userId) ==
    /\ \E n \in notifications :
          /\ n.id = notificationId /\ n.user_id = userId /\ n.status = "unread"
          /\ notifications' = (notifications \ {n}) \cup {[n EXCEPT !.status = "read"]}
    /\ response' = NoResponse
    /\ UNCHANGED <<foods, nextFoodId, nextNotifId, now, pc, loc>>
    /\ UNCHANGED notFoodVars

\* ------------------------------------------------------------ clock
Tick(maxNow) ==
    /\ \E t \in (now + 1)..maxNow : now' = t
    /\ response' = NoResponse
    /\ UNCHANGED <<foods, nextFoodId, notifications, nextNotifId, pc, loc>>
    /\ UNCHANGED notFoodVars

\* ------------------------------------------------------------ rate limiter
\* RateLimitMiddleware in front of a route, for one client key.  The Redis key
\* of a request is rate_limit:<key>:<windowStart>: rlStore is indexed by the
\* window.  A Redis command fails exactly when rlHealthy is FALSE.
Windows == 0..MaxWindow

\* a key that does not exist: GET answers null, INCR starts from 0
NoKey == [count |-> 0, ttl |-> FALSE]

IdleLimiterLoc == [windowStart |-> 0, newCount |-> 0, failed |-> FALSE]

NoLimiterResponse == [allowed |-> TRUE, status |-> 0, window |-> 0, failed |-> FALSE,
                      remaining |-> 0]

\* RedisClient.get followed by `currentCount ? parseInt(currentCount) : 0`:
\* an absent key and a failed GET (caught, null) both read as 0
get(windowStart) == IF rlHealthy THEN rlStore[windowStart].count ELSE 0

\* createRateLimiter after checkRateLimit has returned { allowed, remaining }:
\* status 429 and no next() when not allowed, next() otherwise
LimiterRespond(r, l, allowed, remaining) ==
    /\ rlPc' = [rlPc EXCEPT ![r] = "idle"]
    /\ rlLoc' = [rlLoc EXCEPT ![r] = IdleLimiterLoc]
    /\ rlResponse' = [allowed |-> allowed, status |-> IF allowed THEN 0 ELSE 429,
                      window |-> l.windowStart, failed |-> l.failed,
                      remaining |-> remaining]
    /\ rlAllowed' = IF allowed /\ ~l.failed
                    THEN [rlAllowed EXCEPT ![l.windowStart] = @ + 1]
                    ELSE rlAllowed

\* Math.max(0, maxRequests - newCount)
Remaining(newCount) == IF maxRequests - newCount < 0 THEN 0 ELSE maxRequests - newCount

\* the middleware is entered: the key, the window, up to the await of GET
createRateLimiter(r) ==
    /\ rlPc[r] = "idle"
    /\ rlStarted < LimiterRequests
    /\ rlStarted' = rlStarted + 1
    /\ rlPc' = [rlPc EXCEPT ![r] = "get"]
    /\ rlLoc' = [rlLoc EXCEPT ![r] = [IdleLimiterLoc EXCEPT !.windowStart = rlWindow]]
    /\ rlResponse' = NoLimiterResponse
    /\ UNCHANGED <<rlStore, rlHealthy, rlWindow, rlAllowed>>
    /\ UNCHANGED notLimiterVars

\* checkRateLimit as it would act were a failed GET answered by rejecting
checkRateLimit_get_FailClosed(r) ==
    /\ rlPc[r] = "get"
    /\ LET l == [rlLoc[r] EXCEPT !.failed = @ \/ ~rlHealthy]
           requestCount == get(l.windowStart)
       IN  IF requestCount >= maxRequests \/ ~rlHealthy
           THEN LimiterRespond(r, l, FALSE, 0)
           ELSE /\ rlPc' = [rlPc EXCEPT ![r] = "incr"]
                /\ rlLoc' = [rlLoc EXCEPT ![r] = l]
                /\ rlResponse' = NoLimiterResponse
                /\ UNCHANGED rlAllowed
    /\ UNCHANGED <<rlStore, rlHealthy, rlWindow, rlStarted>>
    /\ UNCHANGED notLimiterVars

\* checkRateLimit resumes from redisClient.get: the limit test, and either the
\* rejection or the await of incrementWithExpire
checkRateLimit_get(r) ==
    /\ rlPc[r] = "get"
    /\ LET l == [rlLoc[r] EXCEPT !.failed = @ \/ ~rlHealthy]
           requestCount == get(l.windowStart)
       IN  IF requestCount >= maxRequests
           THEN LimiterRespond(r, l, FALSE, 0)
           ELSE /\ rlPc' = [rlPc EXCEPT ![r] = "incr"]
                /\ rlLoc' = [rlLoc EXCEPT ![r] = l]
                /\ rlResponse' = NoLimiterResponse
                /\ UNCHANGED rlAllowed
    /\ UNCHANGED <<rlStore, rlHealthy, rlWindow, rlStarted>>
    /\ UNCHANGED notLimiterVars

\* incrementWithExpire: INCR; a first increment goes on to EXPIRE, any error
\* is caught and answered with 0
incrementWithExpire_incr(r) ==
    /\ rlPc[r] = "incr"
    /\ LET l == rlLoc[r]
           count == rlStore[l.windowStart].count + 1
       IN  IF rlHealthy
           THEN /\ rlStore' = [rlStore EXCEPT ![l.windowStart].count = count]
                /\ IF count = 1
                   THEN /\ rlPc' = [rlPc EXCEPT ![r] = "expire"]
                        /\ rlLoc' = [rlLoc EXCEPT ![r] = [l EXCEPT !.newCount = count]]
                        /\ rlResponse' = NoLimiterResponse
                        /\ UNCHANGED rlAllowed
                   ELSE LimiterRespond(r, l, TRUE, Remaining(count))
           ELSE /\ LimiterRespond(r, [l EXCEPT !.failed = TRUE], TRUE, Remaining(0))
                /\ UNCHANGED rlStore
    /\ UNCHANGED <<rlHealthy, rlWindow, rlStarted>>
    /\ UNCHANGED notLimiterVars

\* incrementWithExpire resumes from INCR = 1: EXPIRE key windowSeconds
incrementWithExpire_expire(r) ==
    /\ rlPc[r] = "expire"
    /\ LET l == rlLoc[r]
       IN  IF rlHealthy
           THEN /\ rlStore' = [rlStore EXCEPT ![l.windowStart].ttl = TRUE]
                /\ LimiterRespond(r, l, TRUE, Remaining(l.newCount))
           ELSE /\ LimiterRespond(r, [l EXCEPT !.failed = TRUE], TRUE, Remaining(0))
                /\ UNCHANGED rlStore
    /\ UNCHANGED <<rlHealthy, rlWindow, rlStarted>>
    /\ UNCHANGED notLimiterVars

\* Redis drops a key whose time to live, one window from its first
\* increment, has run out
expireKey(w) ==
    /\ rlStore[w].ttl
    /\ w < rlWindow
    /\ rlStore' = [rlStore EXCEPT ![w] = NoKey]
    /\ rlResponse' = NoLimiterResponse
    /\ UNCHANGED <<rlHealthy, rlWindow, rlPc, rlLoc, rlAllowed, rlStarted>>
    /\ UNCHANGED notLimiterVars

\* Date.now() crosses into the next window
nextWindow ==
    /\ rlWindow < MaxWindow
    /\ rlWindow' = rlWindow + 1
    /\ rlResponse' = NoLimiterResponse
    /\ UNCHANGED <<rlStore, rlHealthy, rlPc, rlLoc, rlAllowed, rlStarted>>
    /\ UNCHANGED notLimiterVars

\* the connection to Redis is lost, or comes back
redisDisconnect ==
    /\ rlHealthy
    /\ rlHealthy' = FALSE
    /\ rlResponse' = NoLimiterResponse
    /\ UNCHANGED <<rlStore, rlWindow, rlPc, rlLoc, rlAllowed, rlStarted>>
    /\ UNCHANGED notLimiterVars

redisConnect ==
    /\ ~rlHealthy
    /\ rlHealthy' = TRUE
    /\ rlResponse' = NoLimiterResponse
    /\ UNCHANGED <<rlStore, rlWindow, rlPc, rlLoc, rlAllowed, rlStarted>>
    /\ UNCHANGED notLimiterVars

\* ------------------------------------------------------------ auth
\* JWTs are records: type and user are the payload's type and id, jti stands
\* for what makes two tokens of one user differ.  A token verifies iff it was
\* signed by CryptoUtils and its exp has not passed.
NoToken == [type |-> "none", user |-> 0, jti |-> 0]

NoAuthResponse == [op |-> "none", status |-> 0, user |-> 0, token |-> NoToken]

\* CryptoUtils.generateTokenPair
generateAccessToken(u) == [type |-> "access", user |-> u, jti |-> authNextJti]

generateRefreshToken(u) == [type |-> "refresh", user |-> u, jti |-> authNextJti]

\* CryptoUtils.verifyToken: TRUE iff jwt.verify returns the payload
verifyToken(token) == token \in authIssued /\ token \notin authExpired

\* AuthMiddleware.authenticate: 0 for next(), else the status it answers with
authenticate(token) ==
    IF token = NoToken THEN 401
    ELSE IF ~verifyToken(token) THEN 401
    ELSE IF token.type # "access" THEN 401
    ELSE 0

AuthRespond(op, status, u, token) ==
    authResponse' = [op |-> op, status |-> status, user |-> u, token |-> token]

\* RedisClient.get, set and del on the key refresh_token:<userId>: a command
\* that fails is caught inside the wrapper, which then returns null or false,
\* and no caller looks at the false
getRefreshToken(u) == IF rlHealthy THEN refreshStore[u] ELSE NoToken

set(u, token) == IF rlHealthy THEN [refreshStore EXCEPT ![u] = token] ELSE refreshStore

del(u) == IF rlHealthy THEN [refreshStore EXCEPT ![u] = NoToken] ELSE refreshStore

\* what may be presented as a bearer or refresh token: a signed token, a
\* token CryptoUtils never signed, or none
Tokens ==
    {[type |-> t, user |-> u, jti |-> j]
        : t \in {"access", "refresh"}, u \in Users, j \in 1..MaxTokenPairs}

PresentedTokens == Tokens \cup {NoToken}

AccessTokens == {token \in Tokens : token.type = "access"}

\* POST /auth/login: AuthService.login, storeRefreshToken included
login(r, u, passwordValid) ==
    /\ authPc[r] = "idle"
    /\ authNextJti <= MaxTokenPairs
    /\ IF ~userActive[u] \/ ~passwordValid
       THEN /\ AuthRespond("login", 401, u, NoToken)
            /\ UNCHANGED <<authIssued, authNextJti, refreshStore>>
       ELSE /\ authIssued' = authIssued \cup {generateAccessToken(u), generateRefreshToken(u)}
            /\ authNextJti' = authNextJti + 1
            /\ refreshStore' = set(u, generateRefreshToken(u))
            /\ AuthRespond("login", 200, u, generateAccessToken(u))
    /\ UNCHANGED <<authExpired, authPc, authLoc, authLoggedOut>>
    /\ UNCHANGED notAuthVars

\* GET /auth/me behind AuthMiddleware.authenticate
getCurrentUser(r, token) ==
    /\ authPc[r] = "idle"
    /\ IF authenticate(token) # 0
       THEN AuthRespond("getCurrentUser", authenticate(token), 0, token)
       ELSE AuthRespond("getCurrentUser", 200, token.user, token)
    /\ UNCHANGED <<authIssued, authNextJti, authExpired, refreshStore, authPc, authLoc,
                   authLoggedOut>>
    /\ UNCHANGED notAuthVars

\* POST /auth/logout behind AuthMiddleware.authenticate: AuthService.logout
\* deletes refresh_token:<userId> when the body carries a refresh_token
logout(r, token, refresh_token) ==
    /\ authPc[r] = "idle"
    /\ IF authenticate(token) # 0
       THEN /\ AuthRespond("logout", authenticate(token), 0, token)
            /\ UNCHANGED <<refreshStore, authLoggedOut>>
       ELSE /\ refreshStore' = IF refresh_token # NoToken
                                THEN del(token.user)
                                ELSE refreshStore
            /\ authLoggedOut' = authLoggedOut \cup
                  {t \in authIssued : t.type = "access" /\ t.user = token.user}
            /\ AuthRespond("logout", 200, token.user, token)
    /\ UNCHANGED <<authIssued, authNextJti, authExpired, authPc, authLoc>>
    /\ UNCHANGED notAuthVars

\* POST /auth/refresh: AuthService.refreshToken up to the await of
\* storeRefreshToken (the Redis read and the users row read are taken in one
\* step); every failure leaves as AppError 401
refreshToken_get(r, refreshToken) ==
    /\ authPc[r] = "idle"
    /\ authNextJti <= MaxTokenPairs
    /\ IF \/ ~verifyToken(refreshToken)
          \/ refreshToken.type # "refresh"
          \/ getRefreshToken(refreshToken.user) = NoToken
          \/ getRefreshToken(refreshToken.user) # refreshToken
          \/ ~userActive[refreshToken.user]
       THEN /\ AuthRespond("refreshToken", 401, 0, refreshToken)
            /\ UNCHANGED <<authPc, authLoc>>
       ELSE /\ authPc' = [authPc EXCEPT ![r] = "storeRefreshToken"]
            /\ authLoc' = [authLoc EXCEPT ![r] = refreshToken]
            /\ authResponse' = NoAuthResponse
    /\ UNCHANGED <<authIssued, authNextJti, authExpired, refreshStore, authLoggedOut>>
    /\ UNCHANGED notAuthVars

\* generateTokenPair and storeRefreshToken of AuthService.refreshToken
refreshToken_storeRefreshToken(r) ==
    /\ authPc[r] = "storeRefreshToken"
    /\ authNextJti <= MaxTokenPairs
    /\ LET u == authLoc[r].user
       IN  /\ authIssued' = authIssued \cup {generateAccessToken(u), generateRefreshToken(u)}
           /\ authNextJti' = authNextJti + 1
           /\ refreshStore' = set(u, generateRefreshToken(u))
           /\ AuthRespond("refreshToken", 200, u, generateAccessToken(u))
    /\ authPc' = [authPc EXCEPT ![r] = "idle"]
    /\ authLoc' = [authLoc EXCEPT ![r] = NoToken]
    /\ UNCHANGED <<authExpired, authLoggedOut>>
    /\ UNCHANGED notAuthVars

\* what a handler past its database write keeps: the user it acts for
UserLoc(u) == [type |-> "user", user |-> u, jti |-> 0]

\* the refresh tokens signed for a user so far
RefreshTokensOf(u) == {t \in authIssued : t.type = "refresh" /\ t.user = u}

\* the start of a password change, password reset or deactivation, up to
\* the await of redisClient.del: the answer when it is refused, else the
\* handler goes on for user u
Begin(r, op, status, u, token) ==
    /\ authPc[r] = "idle"
    /\ IF status # 0
       THEN /\ AuthRespond(op, status, 0, token)
            /\ UNCHANGED <<authPc, authLoc>>
       ELSE /\ authPc' = [authPc EXCEPT ![r] = op]
            /\ authLoc' = [authLoc EXCEPT ![r] = UserLoc(u)]
            /\ authResponse' = NoAuthResponse
    /\ UNCHANGED <<authIssued, authNextJti, authExpired, refreshStore, authLoggedOut>>
    /\ UNCHANGED <<authRefreshed, authRevoked, authLateAccepted>>
    /\ UNCHANGED <<clientVars, notAuthVars>>

\* redisClient.del of refresh_token:<userId> and the 200 that ends the
\* operation; from here on the user's earlier refresh tokens count as revoked
Invalidate(r, op) ==
    /\ authPc[r] = op
    /\ refreshStore' = del(authLoc[r].user)
    /\ authRevoked' = authRevoked \cup RefreshTokensOf(authLoc[r].user)
    /\ AuthRespond(op, 200, authLoc[r].user, NoToken)
    /\ authPc' = [authPc EXCEPT ![r] = "idle"]
    /\ authLoc' = [authLoc EXCEPT ![r] = NoToken]
    /\ UNCHANGED <<authIssued, authNextJti, authExpired, authLoggedOut>>
    /\ UNCHANGED <<userActive, authRefreshed, authLateAccepted>>
    /\ UNCHANGED <<clientVars, notAuthVars>>

\* POST /auth/change-password behind AuthMiddleware.authenticate:
\* AuthService.changePassword up to updatePassword; valid stands for a right
\* current password and a strong new one
changePassword_updatePassword(r, token, valid) ==
    /\ Begin(r, "changePassword",
             IF authenticate(token) # 0 THEN authenticate(token)
             ELSE IF ~valid THEN 400 ELSE 0,
             token.user, token)
    /\ UNCHANGED userActive

changePassword_del(r) == Invalidate(r, "changePassword")

\* POST /auth/reset-password/:token: AuthService.resetPassword up to
\* clearResetPasswordToken; valid stands for a reset token that is found and a
\* strong new password
resetPassword_updatePassword(r, u, valid) ==
    /\ Begin(r, "resetPassword", IF ~valid THEN 400 ELSE 0, u, NoToken)
    /\ UNCHANGED userActive

resetPassword_del(r) == Invalidate(r, "resetPassword")

\* POST /auth/deactivate behind AuthMiddleware.authenticate:
\* AuthService.deactivateAccount up to deactivateUser
deactivateAccount_deactivateUser(r, token, passwordValid) ==
    /\ Begin(r, "deactivateAccount",
             IF authenticate(token) # 0 THEN authenticate(token)
             ELSE IF ~passwordValid THEN 400 ELSE 0,
             token.user, token)
    /\ userActive' = IF authenticate(token) = 0 /\ passwordValid
                     THEN [userActive EXCEPT ![token.user] = FALSE]
                     ELSE userActive

deactivateAccount_del(r) == Invalidate(r, "deactivateAccount")

\* history of the refresh token a refreshToken call has let through its
\* checks in this step: it was revoked before the call came in
Presented(r, token) ==
    /\ authLateAccepted' = IF authPc'[r] = "storeRefreshToken" /\ token \in authRevoked
                           THEN authLateAccepted \cup {token}
                           ELSE authLateAccepted
    /\ UNCHANGED <<userActive, authRefreshed, authRevoked>>

\* history of the refresh token a refreshToken call is answered 200 for
Accepted(token) ==
    /\ authRefreshed' = [authRefreshed EXCEPT ![token] = @ + 1]
    /\ UNCHANGED <<userActive, authRevoked, authLateAccepted>>

\* the exp of a signed token passes
tokenExpires(token) ==
    /\ token \in authIssued \ authExpired
    /\ authExpired' = authExpired \cup {token}
    /\ authResponse' = NoAuthResponse
    /\ UNCHANGED <<authIssued, authNextJti, refreshStore, authPc, authLoc, authLoggedOut>>
    /\ UNCHANGED notAuthVars

\* ------------------------------------------------------------ errors
\* A thrown value: class is the most derived of ValidationError, AppError and
\* Error it is an instance of, name its .name, message what its .message
\* contains, statusCode and errors the fields of AppError and ValidationError.
ErrorNames == {"Error", "TypeError", "RangeError", "SyntaxError",
               "JsonWebTokenError", "TokenExpiredError"}

ErrorMessages == {"other", "JSON", "duplicate key", "foreign key", "connection",
                  "File too large", "Unexpected field", "Too many requests",
                  "Token expired", "Invalid token", "Token verification failed"}

AppErrorStatuses == {400, 401, 403, 404, 409, 500, 503}

ValidationErrors ==
    {[class |-> "ValidationError", name |-> "Error", message |-> "other",
      statusCode |-> 400, errors |-> k]
        : k \in {{"expiry_date"}, {"purchase_date"}, {"name", "unit"}}}

AppErrors ==
    {[class |-> "AppError", name |-> "Error", message |-> "other",
      statusCode |-> c, errors |-> {}] : c \in AppErrorStatuses}

PlainErrors ==
    {[class |-> "Error", name |-> n, message |-> m, statusCode |-> 0, errors |-> {}]
        : n \in ErrorNames, m \in ErrorMessages}

Errors == ValidationErrors \cup AppErrors \cup PlainErrors

NoErrorResponse ==
    [path |-> "none",
     error |-> [class |-> "none", name |-> "none", message |-> "none",
                statusCode |-> 0, errors |-> {}],
     status |-> 0, errors |-> {}]

\* FoodController.handleError / AuthController.handleError
handleError(error) ==
    IF error.class = "ValidationError"
    THEN [status |-> error.statusCode, errors |-> error.errors]
    ELSE IF error.class = "AppError"
    THEN [status |-> error.statusCode, errors |-> {}]
    ELSE [status |-> 500, errors |-> {}]

\* ErrorMiddleware.handle
handle(error) ==
    IF error.class = "ValidationError"
    THEN [status |-> error.statusCode, errors |-> error.errors]
    ELSE IF error.class = "AppError" THEN [status |-> error.statusCode, errors |-> {}]
    ELSE IF error.name = "JsonWebTokenError" THEN [status |-> 401, errors |-> {}]
    ELSE IF error.name = "TokenExpiredError" THEN [status |-> 401, errors |-> {}]
    ELSE IF error.name = "SyntaxError" /\ error.message = "JSON"
    THEN [status |-> 400, errors |-> {}]
    ELSE IF error.message = "duplicate key" THEN [status |-> 409, errors |-> {}]
    ELSE IF error.message = "foreign key" THEN [status |-> 400, errors |-> {}]
    ELSE IF error.message = "connection" THEN [status |-> 503, errors |-> {}]
    ELSE IF error.message = "File too large" THEN [status |-> 413, errors |-> {}]
    ELSE IF error.message = "Unexpected field" THEN [status |-> 400, errors |-> {}]
    ELSE IF error.message = "Too many requests" THEN [status |-> 429, errors |-> {}]
    ELSE [status |-> 500, errors |-> {}]

\* the catch block of AuthMiddleware.authenticate
authenticate_catch(error) ==
    IF error.class \in {"ValidationError", "AppError"}
    THEN [status |-> error.statusCode, errors |-> {}]
    ELSE [status |-> 401, errors |-> {}]

\* where errors are caught, and what can be thrown there: the try block of
\* authenticate throws AppError 401 and what CryptoUtils.verifyToken throws; a
\* controller's try block throws what the services throw (ValidationError,
\* AppError, the errors of pg and of date-fns); the error middleware is handed
\* whatever any middleware throws or passes to next()
Paths == {"handleError", "handle", "authenticate"}

TokenMessages == {"Token expired", "Invalid token", "Token verification failed"}

RaisedOn(path) ==
    IF path = "authenticate"
    THEN {e \in AppErrors : e.statusCode = 401}
         \cup {e \in PlainErrors : e.name = "Error" /\ e.message \in TokenMessages}
    ELSE IF path = "handleError"
    THEN ValidationErrors \cup AppErrors
         \cup {e \in PlainErrors :
                  /\ e.name \in {"Error", "TypeError", "RangeError"}
                  /\ e.message \in {"other", "duplicate key", "foreign key", "connection"}}
    ELSE Errors

Classify(path, error) ==
    IF path = "handleError" THEN handleError(error)
    ELSE IF path = "handle" THEN handle(error)
    ELSE authenticate_catch(error)

ErrRespond(path, error) ==
    /\ error \in RaisedOn(path)
    /\ errResponse' = [path |-> path, error |-> error,
                       status |-> Classify(path, error).status,
                       errors |-> Classify(path, error).errors]
    /\ UNCHANGED notErrVars

\* a controller's try block throws error
controller_throws(error) == ErrRespond("handleError", error)

\* error is passed to next() or thrown by a middleware
next_error(error) == ErrRespond("handle", error)

\* the try block of AuthMiddleware.authenticate throws error
authenticate_throws(error) == ErrRespond("authenticate", error)

\* ------------------------------------------------------------ client
\* What localStorage.setItem stores for an undefined value and what a request
\* carries for it: the string "undefined", which no server ever signed.
Undefined == [type |-> "undefined", user |-> 0, jti |-> 0]

NoTokens == [access_token |-> NoToken, refresh_token |-> NoToken]

\* defaultOptions.queries.retry of the QueryClient
retry == 1

\* what a fetch of the pages is answered with: ok, or a failure
FetchStatuses == {200, 500}

\* the config of an axios request and, around it, the counters of the query
\* whose queryFn sent it
IdleQuery ==
    [authorization |-> NoToken, _retry |-> FALSE, refresh_token |-> NoToken,
     sends |-> 0, failureCount |-> 0, status |-> 0]

\* property key of a parsed JSON body: undefined when the body has no such key
Prop(body, key) == IF key \in DOMAIN body THEN body[key] ELSE Undefined

\* the body AuthController.refreshToken answers 200 with
RefreshBody(u) ==
    [success |-> TRUE,
     data    |-> [user   |-> u,
                  tokens |-> [access_token  |-> generateAccessToken(u),
                              refresh_token |-> generateRefreshToken(u)]],
     message |-> "Token refreshed successfully"]

\* TokenManager.isTokenValid: the payload decodes and its exp has not passed
isTokenValid(token) == token \in Tokens /\ token \notin authExpired

\* the request interceptor: the stored access token goes into the header
\* when it is valid, else the header stays what the config already carries
requestInterceptor(tokens, headers) ==
    IF tokens.access_token # NoToken /\ isTokenValid(tokens.access_token)
    THEN tokens.access_token
    ELSE headers

\* the status a protected route answers a request with
Protected(authorization) ==
    IF authenticate(authorization) = 0 THEN 200 ELSE authenticate(authorization)

\* AuthProvider.login: POST /auth/login, then tokenManager.setTokens
client_login(r, u) ==
    /\ clPc[r] = "idle"
    /\ clTokens = NoTokens
    /\ ~clLoggedOut
    /\ login(r, u, TRUE)
    /\ clTokens' = [access_token  |-> generateAccessToken(u),
                    refresh_token |-> generateRefreshToken(u)]
    /\ UNCHANGED <<clPc, clQuery, clLoggedOut>>
    /\ UNCHANGED accountVars

\* BaseApi.get and its siblings: the request interceptor, then the request
\* is sent
api_request(r) ==
    /\ clPc[r] = "idle"
    /\ clPc' = [clPc EXCEPT ![r] = "request"]
    /\ clQuery' = [clQuery EXCEPT ![r] =
          [IdleQuery EXCEPT !.authorization = requestInterceptor(clTokens, NoToken),
                            !.sends = 1]]
    /\ UNCHANGED <<clTokens, clLoggedOut>>
    /\ UNCHANGED <<authVars, accountVars, notAuthVars>>

\* the response interceptor receives the answer to the request: a 401 not yet
\* retried posts the stored refresh token to /auth/refresh, every other
\* failure rejects
interceptors_response(r) ==
    /\ clPc[r] = "request"
    /\ LET status == Protected(clQuery[r].authorization)
       IN  IF status = 200
           THEN /\ clPc' = [clPc EXCEPT ![r] = "settled"]
                /\ clQuery' = [clQuery EXCEPT ![r].status = 200]
           ELSE IF status = 401 /\ ~clQuery[r]._retry /\ clTokens.refresh_token # NoToken
           THEN /\ clPc' = [clPc EXCEPT ![r] = "refresh"]
                /\ clQuery' = [clQuery EXCEPT ![r]._retry = TRUE,
                                              ![r].refresh_token = clTokens.refresh_token]
           ELSE /\ clPc' = [clPc EXCEPT ![r] = "settled"]
                /\ clQuery' = [clQuery EXCEPT ![r]._retry = (status = 401) \/ @,
                                              ![r].status = status]
    /\ UNCHANGED <<clTokens, clLoggedOut>>
    /\ UNCHANGED <<authVars, accountVars, notAuthVars>>

\* the interceptor's POST /auth/refresh up to the server's await of
\* storeRefreshToken; a 401 lands in the catch block: clearTokens, /login,
\* reject
interceptors_refresh_get(r) ==
    /\ clPc[r] = "refresh"
    /\ refreshToken_get(r, clQuery[r].refresh_token)
    /\ IF authPc'[r] = "idle"
       THEN /\ clTokens' = NoTokens
            /\ clLoggedOut' = TRUE
            /\ clPc' = [clPc EXCEPT ![r] = "settled"]
            /\ clQuery' = [clQuery EXCEPT ![r].status = 401]
       ELSE UNCHANGED clientVars
    /\ UNCHANGED accountVars

\* the server stores the new refresh token and answers 200; the interceptor
\* takes access_token and refresh_token from response.data, stores them and
\* sends the original request again
interceptors_refresh_setTokens(r) ==
    /\ clPc[r] = "refresh"
    /\ refreshToken_storeRefreshToken(r)
    /\ LET data == RefreshBody(authLoc[r].user)
           access_token == Prop(data, "access_token")
           newRefreshToken == Prop(data, "refresh_token")
           stored == [access_token |-> access_token, refresh_token |-> newRefreshToken]
       IN  /\ clTokens' = stored
           /\ clQuery' = [clQuery EXCEPT
                 ![r].authorization = requestInterceptor(stored, access_token),
                 ![r].sends = @ + 1]
    /\ clPc' = [clPc EXCEPT ![r] = "request"]
    /\ UNCHANGED clLoggedOut
    /\ UNCHANGED accountVars

\* a useQuery of the pages runs its queryFn: one fetch
queryFn(r) ==
    /\ clPc[r] = "idle"
    /\ clPc' = [clPc EXCEPT ![r] = "fetch"]
    /\ clQuery' = [clQuery EXCEPT ![r] = [IdleQuery EXCEPT !.sends = 1]]
    /\ UNCHANGED <<clTokens, clLoggedOut>>
    /\ UNCHANGED <<authVars, accountVars, notAuthVars>>

\* the fetch is answered; the queryFn throws unless response.ok
fetch_response(r, status) ==
    /\ clPc[r] = "fetch"
    /\ clPc' = [clPc EXCEPT ![r] = IF status = 200 THEN "settled" ELSE "rejected"]
    /\ clQuery' = [clQuery EXCEPT ![r].status = status]
    /\ UNCHANGED <<clTokens, clLoggedOut>>
    /\ UNCHANGED <<authVars, accountVars, notAuthVars>>

\* react-query runs the queryFn of a failed query again while failureCount
\* is below retry
query_retry_Always(r) ==
    /\ clPc[r] = "rejected"
    /\ clPc' = [clPc EXCEPT ![r] = "fetch"]
    /\ clQuery' = [clQuery EXCEPT ![r].sends = @ + 1,
                                  ![r].failureCount = @ + 1,
                                  ![r].status = 0]
    /\ UNCHANGED <<clTokens, clLoggedOut>>
    /\ UNCHANGED <<authVars, accountVars, notAuthVars>>

query_retry(r) ==
    /\ clPc[r] = "rejected"
    /\ clQuery[r].failureCount < retry
    /\ clPc' = [clPc EXCEPT ![r] = "fetch"]
    /\ clQuery' = [clQuery EXCEPT ![r].sends = @ + 1,
                                  ![r].failureCount = @ + 1,
                                  ![r].status = 0]
    /\ UNCHANGED <<clTokens, clLoggedOut>>
    /\ UNCHANGED <<authVars, accountVars, notAuthVars>>

\* react-query gives the error to the caller once the retries are used up
query_error(r) ==
    /\ clPc[r] = "rejected"
    /\ clQuery[r].failureCount >= retry
    /\ clPc' = [clPc EXCEPT ![r] = "settled"]
    /\ UNCHANGED <<clTokens, clQuery, clLoggedOut>>
    /\ UNCHANGED <<authVars, accountVars, notAuthVars>>

\* ------------------------------------------------------------ recipes
\* The strings of simple-mcp-server.js are Japanese; they are written here in
\* Latin letters: ringo (apple), gyunyu (milk), nasu (eggplant), nazo no
\* shokuzai (the unknown ingredient of the example), kantan sarada (simple
\* salad), furutsu miruku sheiku (fruit milk shake).
Recipe(name, ingredients) == [name |-> name, ingredients |-> ingredients]

recipeDatabase ==
    [ringo  |-> <<Recipe("appurupai", <<"ringo", "komugiko", "bata", "sato">>),
                  Recipe("ringo sarada", <<"ringo", "retasu", "nattsu", "doresshingu">>)>>,
     gyunyu |-> <<Recipe("hotto miruku", <<"gyunyu", "hachimitsu", "shinamon">>),
                  Recipe("miruku purin", <<"gyunyu", "sato", "zerachin", "banira essensu">>)>>,
     nasu   |-> <<Recipe("nasu no miso itame", <<"nasu", "miso", "sato", "mirin", "abura">>),
                  Recipe("nasu no agebitashi", <<"nasu", "dashi", "shoyu", "mirin", "shoga">>)>>]

combinationRecipes ==
    << [ingredients |-> <<"ringo", "gyunyu">>,
        recipe |-> Recipe("furutsu miruku sheiku",
                          <<"gyunyu", "ringo", "hachimitsu", "kori">>)] >>

\* .slice(0, 4)
MaxRecipes == 4

\* property names every object literal inherits from Object.prototype: a
\* lookup by such a name yields a function or an object, never undefined
ObjectPrototype == {"constructor", "toString", "__proto__"}

\* the ingredient names requests are drawn from
Ingredients == {"ringo", "gyunyu", "nasu", "nazo no shokuzai", "constructor"}

IngredientLists(maxLen) == UNION {[1..n -> Ingredients] : n \in 0..maxLen}

\* Array.prototype.includes
includes(arr, x) == \E i \in DOMAIN arr : arr[i] = x

\* combo.ingredients.every(ingredient => ingredients.includes(ingredient))
every_Never(combo, ingredients) == FALSE

every(combo, ingredients) ==
    \A i \in DOMAIN combo.ingredients : includes(ingredients, combo.ingredients[i])

\* the loop over combinationRecipes, from index i on
RECURSIVE pushCombinations(_, _, _)
pushCombinations(i, ingredients, suggestedRecipes) ==
    IF i > Len(combinationRecipes) THEN suggestedRecipes
    ELSE pushCombinations(i + 1, ingredients,
            IF every(combinationRecipes[i], ingredients)
            THEN Append(suggestedRecipes, combinationRecipes[i].recipe)
            ELSE suggestedRecipes)

\* the loop over ingredients, from index i on.  recipeDatabase[ingredient] is
\* truthy for an own key and for an inherited property; spreading the latter
\* throws TypeError (not iterable)
RECURSIVE spreadIndividual(_, _, _)
spreadIndividual(i, ingredients, suggestedRecipes) ==
    IF i > Len(ingredients)
    THEN [threw |-> FALSE, suggestedRecipes |-> suggestedRecipes]
    ELSE IF ingredients[i] \in DOMAIN recipeDatabase
    THEN spreadIndividual(i + 1, ingredients,
                          suggestedRecipes \o recipeDatabase[ingredients[i]])
    ELSE IF ingredients[i] \in ObjectPrototype
    THEN [threw |-> TRUE, suggestedRecipes |-> suggestedRecipes]
    ELSE spreadIndividual(i + 1, ingredients, suggestedRecipes)

\* arr.findIndex(r => r.name === name), for a name that occurs
findIndex(arr, name) ==
    CHOOSE i \in DOMAIN arr :
        /\ arr[i].name = name
        /\ \A j \in 1..(i - 1) : arr[j].name # name

\* .filter((recipe, index, arr) => arr.findIndex(...) === index), from index on
RECURSIVE filter(_, _)
filter(arr, index) ==
    IF index > Len(arr) THEN <<>>
    ELSE (IF findIndex(arr, arr[index].name) = index THEN <<arr[index]>> ELSE <<>>)
         \o filter(arr, index + 1)

\* .slice(0, end)
slice(arr, end) == SubSeq(arr, 1, IF Len(arr) < end THEN Len(arr) ELSE end)

\* the fallback pushed when uniqueRecipes is empty
Fallback(ingredients) == Recipe("kantan sarada", Append(ingredients, "doresshingu"))

NoCall == [called |-> FALSE, ingredients |-> <<>>, status |-> 0, data |-> <<>>]

NoLocals == [suggestedRecipes |-> <<>>]

\* the handler's run on an ingredient list, starting from the given value of
\* suggestedRecipes: its locals and its answer (500 from Express's error
\* handler when it threw)
Run(ingredients, initial) ==
    LET individual == spreadIndividual(1, ingredients,
                                       pushCombinations(1, ingredients, initial))
        uniqueRecipes == slice(filter(individual.suggestedRecipes, 1), MaxRecipes)
    IN  [locals |-> [suggestedRecipes |-> individual.suggestedRecipes],
         call   |-> IF individual.threw
                    THEN [called |-> TRUE, ingredients |-> ingredients,
                          status |-> 500, data |-> <<>>]
                    ELSE [called |-> TRUE, ingredients |-> ingredients,
                          status |-> 200,
                          data |-> IF Len(uniqueRecipes) = 0
                                   THEN <<Fallback(ingredients)>>
                                   ELSE uniqueRecipes]]

\* the history of one earlier call: kept, or replaced by the call just made
Remember(call, keep) ==
    mcpRemembered' =
        IF keep /\ mcpRemembered.call.called
        THEN [mcpRemembered EXCEPT !.later = IF @ < MaxLater THEN @ + 1 ELSE @]
        ELSE [call |-> call, later |-> 0]

\* POST /mcp/tools/get_recipe_suggestions
get_recipe_suggestions_Hoisted(ingredients, keep) ==
    /\ mcpResponse' = Run(ingredients, mcpLocals.suggestedRecipes).call
    /\ mcpLocals' = Run(ingredients, mcpLocals.suggestedRecipes).locals
    /\ Remember(mcpResponse', keep)
    /\ UNCHANGED notRecipeVars

get_recipe_suggestions(ingredients, keep) ==
    /\ mcpResponse' = Run(ingredients, <<>>).call
    /\ mcpLocals' = Run(ingredients, <<>>).locals
    /\ Remember(mcpResponse', keep)
    /\ UNCHANGED notRecipeVars

\* ------------------------------------------------------------ specification
Init ==
    /\ foods = [i \in {} |-> NoRow]
    /\ nextFoodId = 1
    /\ notifications = {}
    /\ nextNotifId = 1
    /\ now = 0
    /\ pc = [r \in Reqs |-> "idle"]
    /\ loc = [r \in Reqs |-> IdleLoc]
    /\ response = NoResponse
    /\ rlStore = [w \in Windows |-> NoKey]
    /\ rlHealthy = TRUE
    /\ rlWindow = 0
    /\ rlPc = [r \in Reqs |-> "idle"]
    /\ rlLoc = [r \in Reqs |-> IdleLimiterLoc]
    /\ rlAllowed = [w \in Windows |-> 0]
    /\ rlStarted = 0
    /\ rlResponse = NoLimiterResponse
    /\ authIssued = {}
    /\ authNextJti = 1
    /\ authExpired = {}
    /\ refreshStore = [u \in Users |-> NoToken]
    /\ authPc = [r \in Reqs |-> "idle"]
    /\ authLoc = [r \in Reqs |-> NoToken]
    /\ authLoggedOut = {}
    /\ authResponse = NoAuthResponse
    /\ errResponse = NoErrorResponse
    /\ clTokens = NoTokens
    /\ clPc = [r \in Reqs |-> "idle"]
    /\ clQuery = [r \in Reqs |-> IdleQuery]
    /\ clLoggedOut = FALSE
    /\ mcpResponse = NoCall
    /\ mcpLocals = NoLocals
    /\ mcpRemembered = [call |-> NoCall, later |-> 0]
    /\ userActive = [u \in Users |-> TRUE]
    /\ authRefreshed = [token \in Tokens |-> 0]
    /\ authRevoked = {}
    /\ authLateAccepted = {}

\* every operation of the service, for the handlers R in flight together and
\* the request parameters drawn from the given sets
Service(R, maxFoods, createInputs, updateInputs, foodIds, bulkInputs) ==
    \/ \E r \in R, u \in Users, d \in createInputs :
          createFood(r, u, d, maxFoods)
    \/ \E r \in R, u \in Users, f \in foodIds, d \in updateInputs :
          updateFood_getFoodById(r, u, f, d)
    \/ \E r \in R : updateFood_update(r)
    \/ \E r \in R : checkAndCreateExpiryNotification_find(r)
    \/ \E r \in R : checkAndCreateExpiryNotification_create(r)
    \/ \E r \in R, u \in Users, f \in foodIds : deleteFood_getFoodById(r, u, f)
    \/ \E r \in R : deleteFood_deleteByFoodId(r)
    \/ \E r \in R : deleteFood_delete(r)
    \/ \E r \in R, u \in Users, f \in foodIds : markAsConsumed_getFoodById(r, u, f)
    \/ \E r \in R : markAsConsumed_updateStatus(r)
    \/ \E r \in R : markAsConsumed_deleteByFoodId(r)
    \/ \E r \in R, u \in Users, f \in foodIds : markAsExpired_getFoodById(r, u, f)
    \/ \E r \in R : markAsExpired_updateStatus(r)
    \/ \E r \in R, u \in Users, ids \in bulkInputs : bulkMarkAsConsumed_findByIds(r, u, ids)
    \/ \E r \in R : bulkMarkAsConsumed_bulkUpdateStatus(r)
    \/ \E r \in R : bulkMarkAsConsumed_deleteByFoodId(r)
    \/ \E r \in R, u \in Users : checkExpiringFoodsForUser(r, u)
    \/ \E n \in 1..MaxNotifs, u \in Users : markAsRead(n, u)

\* one handler at a time, one food row, the clock running
Next ==
    \/ Service({1}, MaxFoods, CreateInputs, UpdateInputs, 1..MaxFoods, BulkInputs(MaxFoods))
    \/ Tick(MaxNow)

Spec == Init /\ [][Next]_vars

\* two handlers in flight together, the clock standing still
NextRace ==
    Service(Reqs, RaceFoods, RaceCreateInputs, RaceUpdateInputs, 1..RaceFoods,
            BulkInputs(RaceFoods))

SpecRace == Init /\ [][NextRace]_vars

\* the hard delete of a food against everything that inserts notifications
\* for it: two handlers in flight together, the clock standing still
NextCascade ==
    \/ \E r \in Reqs, u \in Users, d \in RaceCreateInputs :
          createFood(r, u, d, CascadeFoods)
    \/ \E r \in Reqs, u \in Users, f \in 1..CascadeFoods :
          updateFood_getFoodById(r, u, f, [expiry_date |-> 0])
    \/ \E r \in Reqs : updateFood_update(r)
    \/ \E r \in Reqs : checkAndCreateExpiryNotification_find(r)
    \/ \E r \in Reqs : checkAndCreateExpiryNotification_create(r)
    \/ \E r \in Reqs, u \in Users, f \in 1..CascadeFoods : deleteFood_getFoodById(r, u, f)
    \/ \E r \in Reqs : deleteFood_deleteByFoodId(r)
    \/ \E r \in Reqs : deleteFood_delete(r)
    \/ \E r \in Reqs, u \in Users : checkExpiringFoodsForUser(r, u)

SpecCascade == Init /\ [][NextCascade]_vars

\* the rate limiter of one route and one client key, two requests in flight
NextLimiter ==
    \/ \E r \in Reqs : createRateLimiter(r)
    \/ \E r \in Reqs : checkRateLimit_get(r)
    \/ \E r \in Reqs : incrementWithExpire_incr(r)
    \/ \E r \in Reqs : incrementWithExpire_expire(r)
    \/ \E w \in Windows : expireKey(w)
    \/ nextWindow
    \/ redisDisconnect
    \/ redisConnect

SpecLimiter == Init /\ [][NextLimiter]_vars

\* creating foods and moving them between storage locations, one handler
NextStorage ==
    \/ \E u \in Users, d \in StorageCreateInputs : createFood(1, u, d, StorageFoods)
    \/ \E u \in Users, f \in 1..StorageFoods, d \in StorageUpdateInputs :
          updateFood_getFoodById(1, u, f, d)
    \/ updateFood_update(1)
    \/ checkAndCreateExpiryNotification_find(1)
    \/ checkAndCreateExpiryNotification_create(1)

SpecStorage == Init /\ [][NextStorage]_vars

\* the storage-advice requests against a database whose queries can fail
NextFailure ==
    \/ NextStorage
    \/ query_throws(1)

SpecFailure == Init /\ [][NextFailure]_vars

\* the auth routes and a protected route, two requests in flight
NextAuth ==
    \/ \E r \in Reqs, u \in Users, passwordValid \in BOOLEAN :
          login(r, u, passwordValid) /\ UNCHANGED <<clientVars, accountVars>>
    \/ \E r \in Reqs, token \in PresentedTokens :
          getCurrentUser(r, token) /\ UNCHANGED <<clientVars, accountVars>>
    \/ \E r \in Reqs, token \in PresentedTokens, refresh_token \in PresentedTokens :
          logout(r, token, refresh_token) /\ UNCHANGED <<clientVars, accountVars>>
    \/ \E r \in Reqs, refreshToken \in Tokens :
          refreshToken_get(r, refreshToken) /\ UNCHANGED <<clientVars, accountVars>>
    \/ \E r \in Reqs : refreshToken_storeRefreshToken(r) /\ UNCHANGED <<clientVars, accountVars>>
    \/ \E token \in Tokens : tokenExpires(token) /\ UNCHANGED <<clientVars, accountVars>>

SpecAuth == Init /\ [][NextAuth]_vars

\* every error on every path that catches errors
NextErrors ==
    \/ \E error \in Errors : controller_throws(error)
    \/ \E error \in Errors : next_error(error)
    \/ \E error \in Errors : authenticate_throws(error)

SpecErrors == Init /\ [][NextErrors]_vars

\* one browser: it logs in, its access token expires, its requests and
\* queries are sent
NextClient ==
    \/ \E r \in Reqs, u \in Users : client_login(r, u)
    \/ \E r \in Reqs : api_request(r)
    \/ \E r \in Reqs : queryFn(r)
    \/ \E r \in Reqs, status \in FetchStatuses : fetch_response(r, status)
    \/ \E r \in Reqs : interceptors_response(r)
    \/ \E r \in Reqs : interceptors_refresh_get(r)
    \/ \E r \in Reqs : interceptors_refresh_setTokens(r)
    \/ \E r \in Reqs : query_retry(r)
    \/ \E r \in Reqs : query_error(r)
    \/ \E token \in Tokens : tokenExpires(token) /\ UNCHANGED <<clientVars, accountVars>>

SpecClient == Init /\ [][NextClient]_vars

\* the recipe matcher called with every ingredient list, again and again
NextRecipes ==
    \E ingredients \in IngredientLists(MaxIngredients) :
        get_recipe_suggestions(ingredients, FALSE)

SpecRecipes == Init /\ [][NextRecipes]_vars

\* the same, one earlier call kept for comparison with the calls after it
NextRepeat ==
    \E ingredients \in IngredientLists(RepeatIngredients), keep \in BOOLEAN :
        get_recipe_suggestions(ingredients, keep)

SpecRepeat == Init /\ [][NextRepeat]_vars

\* the auth routes that issue, rotate and revoke refresh tokens, two requests
\* in flight, Redis failing and recovering
NextRotation ==
    \/ \E r \in Reqs, u \in Users, passwordValid \in BOOLEAN :
          login(r, u, passwordValid) /\ UNCHANGED <<clientVars, accountVars>>
    \/ \E r \in Reqs, refreshToken \in Tokens :
          /\ refreshToken_get(r, refreshToken)
          /\ Presented(r, refreshToken)
          /\ UNCHANGED clientVars
    \/ \E r \in Reqs :
          /\ refreshToken_storeRefreshToken(r)
          /\ Accepted(authLoc[r])
          /\ UNCHANGED clientVars
    \/ \E r \in Reqs, token \in AccessTokens, valid \in BOOLEAN :
          changePassword_updatePassword(r, token, valid)
    \/ \E r \in Reqs : changePassword_del(r)
    \/ \E r \in Reqs, u \in Users, valid \in BOOLEAN :
          resetPassword_updatePassword(r, u, valid)
    \/ \E r \in Reqs : resetPassword_del(r)
    \/ \E r \in Reqs, token \in AccessTokens, passwordValid \in BOOLEAN :
          deactivateAccount_deactivateUser(r, token, passwordValid)
    \/ \E r \in Reqs : deactivateAccount_del(r)
    \/ redisDisconnect
    \/ redisConnect

SpecRotation == Init /\ [][NextRotation]_vars

\* two authenticated users against each other's foods: one handler at a
\* time, the clock standing still
IsolationUsers == {1, 2}

NextIsolation ==
    \/ \E r \in {1}, u \in IsolationUsers, d \in RaceCreateInputs :
          createFood(r, u, d, IsolationFoods)
    \/ \E r \in {1}, u \in IsolationUsers, f \in 1..IsolationFoods : getById(r, u, f)
    \/ \E r \in {1}, u \in IsolationUsers, f \in 1..IsolationFoods,
          d \in IsolationUpdateInputs :
          updateFood_getFoodById(r, u, f, d)
    \/ \E r \in {1} : updateFood_update(r)
    \/ \E r \in {1} : checkAndCreateExpiryNotification_find(r)
    \/ \E r \in {1} : checkAndCreateExpiryNotification_create(r)
    \/ \E r \in {1}, u \in IsolationUsers, f \in 1..IsolationFoods :
          deleteFood_getFoodById(r, u, f)
    \/ \E r \in {1} : deleteFood_deleteByFoodId(r)
    \/ \E r \in {1} : deleteFood_delete(r)
    \/ \E r \in {1}, u \in IsolationUsers, f \in 1..IsolationFoods :
          markAsConsumed_getFoodById(r, u, f)
    \/ \E r \in {1} : markAsConsumed_updateStatus(r)
    \/ \E r \in {1} : markAsConsumed_deleteByFoodId(r)
    \/ \E r \in {1}, u \in IsolationUsers, f \in 1..IsolationFoods :
          markAsExpired_getFoodById(r, u, f)
    \/ \E r \in {1} : markAsExpired_updateStatus(r)
    \/ \E r \in {1}, u \in IsolationUsers, ids \in BulkInputs(IsolationFoods) :
          bulkMarkAsConsumed_findByIds(r, u, ids)
    \/ \E r \in {1} : bulkMarkAsConsumed_bulkUpdateStatus(r)
    \/ \E r \in {1} : bulkMarkAsConsumed_deleteByFoodId(r)

SpecIsolation == Init /\ [][NextIsolation]_vars

TypeOK ==
    /\ DOMAIN foods \subseteq 1..(nextFoodId - 1)
    /\ nextNotifId \in 1..(MaxNotifs + 1)
    /\ now \in 0..MaxNow
    /\ \A f \in DOMAIN foods : foods[f].id = f /\ foods[f].status \in FoodStatuses
    /\ \A n \in notifications : n.id < nextNotifId /\ n.status \in {"unread", "read"}

\* ============================================================ properties
TerminalStatuses == {"consumed", "expired", "disposed"}

\* the unread expiry_alert rows of a (user, food) pair
UnreadAlerts(u, f) ==
    {n \in notifications : /\ n.user_id = u /\ n.food_id = f
                           /\ n.type = "expiry_alert" /\ n.status = "unread"}

\* the rows of any type and status that reference food f
NotificationsOf(f) == {n \in notifications : n.food_id = f}

\* the three-way classification of section 4.1 of the specification, on the
\* calendar-day difference between the expiry date and today
CalendarDaysUntil(expiry_date) == expiry_date - Today

CalendarBucket(expiry_date, threshold) ==
    IF expiry_date < Today THEN "expired"
    ELSE IF 0 <= CalendarDaysUntil(expiry_date) /\ CalendarDaysUntil(expiry_date) <= threshold
    THEN "expiring_soon"
    ELSE "active"

\* the bucket DateUtils.isExpired / DateUtils.isExpiringSoon put a date in
DateUtilsBucket(expiry_date, threshold) ==
    IF isExpired(expiry_date) THEN "expired"
    ELSE IF isExpiringSoon(expiry_date, threshold) THEN "expiring_soon"
    ELSE "active"

\* the bucket is_food_expired / is_food_expiring_soon put a date in
SqlBucket(expiry_date, threshold) ==
    IF is_food_expired(expiry_date) THEN "expired"
    ELSE IF is_food_expiring_soon(expiry_date, threshold) THEN "expiring_soon"
    ELSE "active"

\* C1: at most one unread expiry_alert notification exists for every
\* (user, food) pair, in every state two interleaved handlers can reach.
C1_AtMostOneUnreadAlert ==
    \A u \in Users : \A f \in DOMAIN foods : Cardinality(UnreadAlerts(u, f)) <= 1

\* C2: every step that inserts an expiry_alert row inserts it for a food
\* whose stored status is active at that step.
C2_InsertOnlyForActiveFood ==
    [][\A n \in notifications' \ notifications :
          n.food_id \in DOMAIN foods /\ foods[n.food_id].status = "active"]_vars

\* C3: a food whose status is consumed, expired or disposed keeps that status
\* in every step, as long as its row exists.
C3_TerminalStatusStays ==
    [][\A f \in DOMAIN foods \cap DOMAIN foods' :
          foods[f].status \in TerminalStatuses => foods'[f].status = foods[f].status]_vars

\* C4: every stored food has expiry_date >= purchase_date.
C4_ExpiryNotBeforePurchase ==
    \A f \in DOMAIN foods : foods[f].expiry_date >= foods[f].purchase_date

\* C5: at every instant the evaluator (DateUtils) classifies the expiry date
\* of every stored food as the calendar-day rule does: expired iff before
\* today, expiring soon iff 0 <= days_until <= threshold, active otherwise.
C5_ClassifyByCalendarDays ==
    \A f \in DOMAIN foods :
        /\ getDaysUntilExpiry(foods[f].expiry_date) = CalendarDaysUntil(foods[f].expiry_date)
        /\ DateUtilsBucket(foods[f].expiry_date, DefaultThreshold)
              = CalendarBucket(foods[f].expiry_date, DefaultThreshold)

\* C6: at every instant the notification path (DateUtils), the listing and
\* sweep path (SQL functions) and the dashboard filter agree on the bucket of
\* every stored food.
C6_OneDayConvention ==
    \A f \in DOMAIN foods :
        LET e == foods[f].expiry_date
        IN  /\ DateUtilsBucket(e, DefaultThreshold) = SqlBucket(e, DefaultThreshold)
            /\ DashboardExpiringSoon(e) <=> is_food_expiring_soon(e, DefaultThreshold)
            /\ DashboardExpiringSoon(e) <=> isExpiringSoon(e, DefaultThreshold)

\* C7: when the generator has found an active food due, its existence check
\* goes on to the insert exactly when the food has no unread expiry_alert
\* (alerts marked read do not count), and the insert adds exactly one row.
C7_InsertIffNoUnreadAlert ==
    [][\A r \in Reqs :
          /\ checkAndCreateExpiryNotification_find(r) =>
                ((pc'[r] = "cn_create")
                    <=> UnreadAlerts(loc[r].food.user_id, loc[r].food.id) = {})
          /\ checkAndCreateExpiryNotification_create(r) =>
                Cardinality(notifications' \ notifications) = 1]_vars

\* C8: when a sweep for a user has returned, every active food of that user
\* in the expiring-soon or the expired bucket has an expiry_alert notification.
C8_SweepCoversDueFoods ==
    (response.op = "checkExpiringFoodsForUser" /\ response.status = 200) =>
        \A f \in DOMAIN foods :
            (/\ foods[f].user_id = response.user
             /\ foods[f].status = "active"
             /\ CalendarBucket(foods[f].expiry_date, DefaultThreshold)
                    \in {"expiring_soon", "expired"})
            => \E n \in NotificationsOf(f) : n.type = "expiry_alert"

\* C9: when marking foods consumed (single or bulk) has returned successfully,
\* no notification row references any of those foods.
C9_ConsumedHasNoNotifications ==
    (response.op \in {"markAsConsumed", "bulkMarkAsConsumed"} /\ response.status = 200) =>
        \A f \in response.foodIds : NotificationsOf(f) = {}

\* C10: every operation that sets a food's status to consumed or disposed,
\* the general update carrying a status field included, returns with no
\* notification row left for that food.
C10_ConsumedOrDisposedDeletesNotifications ==
    [][\A r \in Reqs :
          /\ (/\ updateFood_update(r)
              /\ "status" \in DOMAIN loc[r].data
              /\ loc[r].data.status \in {"consumed", "disposed"}
              /\ response'.status = 200)
                => \A n \in notifications' : n.food_id # loc[r].foodId
          /\ (markAsConsumed_deleteByFoodId(r) \/ bulkMarkAsConsumed_deleteByFoodId(r))
                => (response'.status = 200
                      => \A n \in notifications' : n.food_id \notin loc[r].foodIds)]_vars

\* C11: a hard-deleted food leaves nothing behind: once DELETE /foods/:id has
\* returned 204 the food row is gone, and no notification row ever references
\* a food id that has no row, whatever a concurrent handler inserts.
C11_DeletedFoodLeavesNothing ==
    /\ \A n \in notifications : n.food_id \in DOMAIN foods
    /\ (response.op = "deleteFood" /\ response.status = 204) =>
          \A f \in response.foodIds : f \notin DOMAIN foods /\ NotificationsOf(f) = {}

\* a delete has returned while another handler's generator, called with the
\* deleted food, is suspended before its INSERT
C11_Witness ==
    /\ response.op = "deleteFood" /\ response.status = 204
    /\ \E r \in Reqs : pc[r] = "cn_create" /\ loc[r].food.id \in response.foodIds

\* C12: in every window, at most maxRequests of the requests whose check ran
\* without a store error are let through, concurrent requests included.
C12_AtMostMaxRequestsPerWindow ==
    \A w \in Windows : rlAllowed[w] <= maxRequests

\* C13: a request whose rate-limit check hit a store error (on GET, INCR or
\* EXPIRE) is let through, never answered with 429.
C13_FailsOpen ==
    rlResponse.failed => (rlResponse.allowed /\ rlResponse.status # 429)

\* a request was let through after a store error although the counter of its
\* window had already reached the limit
C13_Witness ==
    /\ rlResponse.failed
    /\ rlResponse.allowed
    /\ rlStore[rlResponse.window].count >= maxRequests

\* updateFood called adjustExpiryDateBasedOnStorage: what it passes to the
\* repository is then the merged row, not the request body
AdjustmentTriggered(l) == DOMAIN l.adjustedUpdateData # DOMAIN l.data

\* C14: storage adjustment never shortens: the expiry_date a create persists,
\* and the one an update that triggers the adjustment persists, is greater than
\* or equal to the expiry date supplied with that request
C14_NeverShortensExpiry ==
    [][/\ \A u \in Users, d \in StorageCreateInputs :
            (createFood(1, u, d, StorageFoods) /\ nextFoodId' # nextFoodId)
                => foods'[nextFoodId].expiry_date >= d.expiry_date
       /\ (/\ updateFood_update(1)
           /\ AdjustmentTriggered(loc[1])
           /\ "expiry_date" \in DOMAIN loc[1].data
           /\ loc[1].foodId \in DOMAIN foods)
                => foods'[loc[1].foodId].expiry_date >= loc[1].data.expiry_date]_vars

\* an update moved a food to the tip's location and its adjustment replaced the
\* supplied expiry date by a later one, which the UPDATE is about to persist
C14_Witness ==
    /\ pc[1] = "upd_update"
    /\ AdjustmentTriggered(loc[1])
    /\ "expiry_date" \in DOMAIN loc[1].data
    /\ loc[1].adjustedUpdateData.expiry_date > loc[1].data.expiry_date

\* the candidate date of a create request and the condition under which it
\* replaces the supplied one
Candidate(d) == d.purchase_date + TipShelfLife

TipApplies(d) ==
    /\ d.name \in {TipName} \cup PartialMatches
    /\ "storage_location" \in DOMAIN d
    /\ d.storage_location = TipMethod
    /\ Candidate(d) > d.expiry_date

C16_ExpiryBeforePurchaseRejected ==
    [][\A u \in Users, d \in StorageCreateInputs :
          (d.expiry_date < d.purchase_date /\ createFood(1, u, d, StorageFoods))
              => /\ response'.op = "createFood"
                 /\ response'.status = 400
                 /\ "expiry_date" \in response'.errors
                 /\ foods' = foods
                 /\ notifications' = notifications
                 /\ nextFoodId' = nextFoodId]_vars

\* a create was rejected for its dates and the foods table is as it was
C16_Witness ==
    /\ response.op = "createFood" /\ response.status = 400
    /\ "expiry_date" \in response.errors
    /\ DOMAIN foods = {}

\* C17: every expiry_alert row the generator inserts has priority high exactly
\* when the food's days_until (calendar days from today to the expiry date) is
\* at most 1 at the moment of the insert
C17_HighIffOffsetAtMostOne ==
    [][\A n \in notifications' \ notifications :
          n.type = "expiry_alert"
              => (n.priority = "high"
                    <=> CalendarDaysUntil(foods[n.food_id].expiry_date) <= 1)]_vars

\* C19: a create-food request that ends in 500 or 503 leaves no food row of
\* its own behind
C19_CreateIsAllOrNothing ==
    (response.op = "createFood" /\ response.status \in {500, 503}) =>
        \A f \in response.foodIds : f \notin DOMAIN foods

\* C18: a protected request that presents an access token issued before a
\* successful logout of its user is answered 401
C18_AccessTokenDeadAfterLogout ==
    (authResponse.op = "getCurrentUser" /\ authResponse.token \in authLoggedOut)
        => authResponse.status = 401

\* the infrastructure failures the error handling is said to recognise
RecognisedInfrastructureFailure(error) ==
    error.message \in {"duplicate key", "foreign key", "connection"}

\* C20: an error is classified the same way wherever it is caught: a
\* ValidationError gives 400 with its field-keyed messages, any other AppError
\* its own status code, an exception of neither class that is no recognised
\* infrastructure failure 500, and every path that can catch the error gives
\* the same status
C20_UniformClassification ==
    errResponse.path # "none" =>
        LET error == errResponse.error
        IN  /\ error.class = "ValidationError"
                  => (errResponse.status = 400 /\ errResponse.errors = error.errors)
            /\ error.class = "AppError" => errResponse.status = error.statusCode
            /\ (error.class = "Error" /\ ~RecognisedInfrastructureFailure(error))
                  => errResponse.status = 500
            /\ \A path \in Paths :
                  error \in RaisedOn(path) => Classify(path, error).status = errResponse.status

\* C21, as stated: no retries are implemented anywhere, so each request of
\* the client is sent at most once.
C21_NoRetries ==
    \A r \in Reqs : clQuery[r].sends <= 1

\* C21, amended: retries exist in the browser and are bounded.  react-query
\* runs a failed query again at most retry times, the interceptor sends a
\* request again at most once (after a 401 and a refresh), and a failure
\* reaches the caller of a query only when its retries are used up.
C21_RetriesAreBounded ==
    \A r \in Reqs :
        /\ clQuery[r].failureCount <= retry
        /\ clQuery[r].sends <= clQuery[r].failureCount + 1
                                  + (IF clQuery[r]._retry THEN 1 ELSE 0)
        /\ clPc[r] = "settled" /\ clQuery[r].status = 500
              => clQuery[r].failureCount = retry

\* a request was sent again by the interceptor after a refresh and then
\* failed for good, and a failed query was run again and then gave its error
\* to the caller
C21_Witness ==
    \E r \in Reqs, q \in Reqs :
        /\ clPc[r] = "settled" /\ clQuery[r]._retry
        /\ clQuery[r].status = 401 /\ clQuery[r].sends = 2
        /\ clPc[q] = "settled" /\ clQuery[q].status = 500
        /\ clQuery[q].failureCount = retry /\ clQuery[q].sends = retry + 1

\* the elements of a list
Range(seq) == {seq[i] : i \in DOMAIN seq}

\* the combination recipes whose required ingredients are a subset of the
\* input, in registration order
MatchingCombinations(ingredients) ==
    LET matching == SelectSeq(combinationRecipes,
                       LAMBDA combo : Range(combo.ingredients) \subseteq Range(ingredients))
    IN  [i \in DOMAIN matching |-> matching[i].recipe]

\* for each input ingredient, in input order, that is a key of the
\* dictionary: that key's recipes
RECURSIVE KeyRecipes(_)
KeyRecipes(ingredients) ==
    IF ingredients = <<>> THEN <<>>
    ELSE (IF Head(ingredients) \in DOMAIN recipeDatabase
          THEN recipeDatabase[Head(ingredients)] ELSE <<>>)
         \o KeyRecipes(Tail(ingredients))

\* a list of recipes without the later recipes of a name already seen
RECURSIVE FirstSeen(_, _)
FirstSeen(recipes, seen) ==
    IF recipes = <<>> THEN <<>>
    ELSE IF Head(recipes).name \in seen THEN FirstSeen(Tail(recipes), seen)
    ELSE <<Head(recipes)>> \o FirstSeen(Tail(recipes), seen \cup {Head(recipes).name})

\* the deduplicated sequence of an ingredient list
Deduplicated(ingredients) ==
    FirstSeen(MatchingCombinations(ingredients) \o KeyRecipes(ingredients), {})

\* C22: for every ingredient list the matcher answers, and what it has before
\* truncation is the matching combination recipes followed by the recipes of
\* the input's dictionary keys in input order, first occurrence of each name
\* kept.
C22_UntruncatedResult ==
    mcpResponse.called =>
        /\ mcpResponse.status = 200
        /\ filter(mcpLocals.suggestedRecipes, 1) = Deduplicated(mcpResponse.ingredients)

\* the first n elements of a list
FirstN(seq, n) == SubSeq(seq, 1, IF Len(seq) < n THEN Len(seq) ELSE n)

\* C23: for every ingredient list the matcher returns at most 4 recipes, and
\* they are the first 4 of the deduplicated sequence (when that sequence is
\* empty the fallback of C24 is what is returned).
C23_FirstFourOfDeduplicated ==
    mcpResponse.called =>
        /\ Len(mcpResponse.data) <= 4
        /\ Deduplicated(mcpResponse.ingredients) # <<>>
              => mcpResponse.data = FirstN(Deduplicated(mcpResponse.ingredients), 4)

\* no combination and no dictionary key matches the input
NothingMatches(ingredients) ==
    /\ MatchingCombinations(ingredients) = <<>>
    /\ \A i \in DOMAIN ingredients : ingredients[i] \notin DOMAIN recipeDatabase

\* C24: the matcher returns the fallback exactly when nothing matches: then
\* the result is one recipe named kantan sarada whose ingredients hold every
\* input ingredient, and otherwise no returned recipe has that name.
C24_FallbackIffNothingMatches ==
    mcpResponse.called =>
        IF NothingMatches(mcpResponse.ingredients)
        THEN /\ Len(mcpResponse.data) = 1
             /\ mcpResponse.data[1].name = "kantan sarada"
             /\ Range(mcpResponse.ingredients) \subseteq Range(mcpResponse.data[1].ingredients)
        ELSE \A i \in DOMAIN mcpResponse.data : mcpResponse.data[i].name # "kantan sarada"

\* the names of a list of recipes
Names(recipes) == {recipes[i].name : i \in DOMAIN recipes}

\* C25: for the list ringo, gyunyu the result holds the combination recipe
\* furutsu miruku sheiku, a recipe of ringo's and a recipe of gyunyu's, no
\* name twice, and at most 4 recipes.
C25_AppleAndMilk ==
    mcpResponse.called /\ mcpResponse.ingredients = <<"ringo", "gyunyu">> =>
        /\ "furutsu miruku sheiku" \in Names(mcpResponse.data)
        /\ Names(recipeDatabase["ringo"]) \cap Names(mcpResponse.data) # {}
        /\ Names(recipeDatabase["gyunyu"]) \cap Names(mcpResponse.data) # {}
        /\ \A i, j \in DOMAIN mcpResponse.data :
              mcpResponse.data[i].name = mcpResponse.data[j].name => i = j
        /\ Len(mcpResponse.data) <= 4

\* the matcher answered the list ringo, gyunyu, whose five matching recipes
\* were cut to four
C25_Witness ==
    /\ mcpResponse.called
    /\ mcpResponse.ingredients = <<"ringo", "gyunyu">>
    /\ mcpResponse.status = 200
    /\ Len(mcpLocals.suggestedRecipes) = 5
    /\ Len(mcpResponse.data) = 4

C27_RefreshTokenSingleUse ==
    \A token \in Tokens : authRefreshed[token] <= 1

\* C28: after a password change, a password reset or a deactivation has
\* completed, no refresh token issued to the user before it is accepted by
\* a refreshToken call that comes in afterwards.
C28_RevokedTokenNeverAccepted ==
    authLateAccepted = {}

\* the food rows and the notifications of user v in a table
RowsOf(table, v) == {table[i] : i \in {j \in DOMAIN table : table[j].user_id = v}}

NotificationsOfUser(table, v) == {n \in table : n.user_id = v}

\* foodId is a row of somebody other than u
OwnedByAnother(u, foodId) == foodId \in DOMAIN foods /\ foods[foodId].user_id # u

\* this step belongs to a request of user u: a handler of u starts, goes on
\* or answers
StepOf(r, u) ==
    \/ pc[r] # "idle" /\ loc[r].user = u /\ <<pc[r], loc[r]>> # <<pc'[r], loc'[r]>>
    \/ pc[r] = "idle" /\ pc'[r] # "idle" /\ loc'[r].user = u
    \/ pc[r] = "idle" /\ pc'[r] = "idle" /\ response' # NoResponse /\ response'.user = u

\* the operations that name food rows by id
ById == {"getById", "updateFood", "deleteFood", "markAsConsumed", "markAsExpired",
         "bulkMarkAsConsumed"}

\* foodId is not a row of u: no such row, or a row of somebody else
NotOwned(u, foodId) == foodId \notin DOMAIN foods \/ foods[foodId].user_id # u

\* C29: whatever user A requests, the food rows and the notifications of every
\* other user stay as they are; a get, update, delete, mark consumed, mark
\* expired or bulk consume never goes past its ownership check with a food
\* its caller does not own: it is answered 404 at once and changes no food
\* row and no notification
C29_PerUserIsolation ==
    [][ /\ \/ foods' = foods /\ notifications' = notifications
           \/ \A r \in Reqs, u \in IsolationUsers :
                 StepOf(r, u) =>
                     \A v \in IsolationUsers \ {u} :
                         /\ RowsOf(foods', v) = RowsOf(foods, v)
                         /\ NotificationsOfUser(notifications', v) =
                               NotificationsOfUser(notifications, v)
        /\ \A r \in Reqs :
              pc[r] = "idle" /\ pc'[r] # "idle" /\ loc'[r].op \in ById
              => \A f \in loc'[r].foodIds : ~NotOwned(loc'[r].user, f)
        /\ /\ response' # NoResponse /\ response'.op \in ById /\ pc' = pc
           /\ \E f \in response'.foodIds : NotOwned(response'.user, f)
           => /\ response'.status = 404
              /\ foods' = foods /\ notifications' = notifications ]_vars

\* a bulk consume naming a food of the caller and a food of another user, the
\* latter with a notification, has been answered 404
C29_Witness ==
    /\ response.op = "bulkMarkAsConsumed" /\ response.status = 404
    /\ \E f, g \in response.foodIds :
          /\ OwnedByAnother(response.user, f)
          /\ g \in DOMAIN foods /\ foods[g].user_id = response.user
          /\ \E n \in notifications : n.food_id = f /\ n.user_id = foods[f].user_id

\* the request in slot r got a 401 while the client held a refresh token the
\* server would accept: the interceptor took a signed, unexpired refresh
\* token from the store (the store holds what the server issued last until a
\* refresh response replaces it), and the request has since settled
RefreshedAndSettled(r) ==
    /\ clPc[r] = "settled"
    /\ clQuery[r]._retry
    /\ clQuery[r].refresh_token \in Tokens \ authExpired
    /\ clQuery[r].refresh_token.type = "refresh"

\* the client's stored pair is one the server accepts: the access token
\* passes authenticate, the refresh token is the one stored for its user
ValidPair(tokens) ==
    /\ tokens.access_token \in Tokens /\ authenticate(tokens.access_token) = 0
    /\ tokens.refresh_token \in Tokens
    /\ tokens.refresh_token \notin authExpired
    /\ refreshStore[tokens.refresh_token.user] = tokens.refresh_token

\* C30: once all the in-flight requests of the client that were answered 401
\* while it held a refresh token valid on the server have settled, the client
\* holds a valid token pair and has not been logged out
C30_ConcurrentRefreshKeepsSession ==
    (\A r \in Reqs : RefreshedAndSettled(r)) => ~clLoggedOut /\ ValidPair(clTokens)

====
